---------------------------- MODULE Spec2Model ----------------------------
(***************************************************************************)
(* VisualNote: a webcam-controlled note workspace.                         *)
(*                                                                         *)
(* The module models the workspace data layer (workspaceState.js,          *)
(* noteModel.js, linkModel.js), the gesture engine (gestureEngine.js),     *)
(* the toolbar, export menu and note editor, and the orchestrator's        *)
(* per-frame interaction processing (main.js).                             *)
(*                                                                         *)
(* Numbers.  JavaScript numbers are modelled in fixed point:               *)
(*   - screen and world coordinates are whole pixels;                      *)
(*   - zoom is counted in units of 1/ZOOM_ONE (ZOOM_ONE stands for 1.0);   *)
(*   - zoom factors are counted in units of 1/FACTOR_ONE;                  *)
(*   - time is counted in milliseconds;                                    *)
(*   - landmark distances are counted in units of 1/1000 of the            *)
(*     normalised image size.                                              *)
(* Divisions round down (\div).                                            *)
(*                                                                         *)
(* Identifiers.  The note id `note_<n>` is the number n, the link id       *)
(* `link_<n>` the number n; NULL (0) stands for null.                      *)
(***************************************************************************)
EXTENDS Integers, Sequences, FiniteSets, TLC

VARIABLES
    \* ---- workspaceState.js: workspace
    notes,              \* workspace.notes: sequence of note records
    links,              \* workspace.links: sequence of link records
    zoom,               \* workspace.zoom
    offsetX,            \* workspace.offsetX
    offsetY,            \* workspace.offsetY
    \* ---- workspaceState.js: selection
    selectedNoteIds,    \* selection.selectedNoteIds: sequence of note ids
    linkSourceId,       \* selection.linkSourceId: a note id or NULL
    \* ---- noteModel.js / linkModel.js
    noteCounter,        \* module counter of noteModel.js
    linkCounter,        \* module counter of linkModel.js
    \* ---- gestureEngine.js
    rightHand,          \* per-hand state of the right hand
    leftHand,           \* per-hand state of the left hand
    twoHand,            \* two-hand combo state
    interactionMode,    \* resolved interaction mode
    \* ---- history
    lastOp,             \* the operation performed by the last step
    rawRun,             \* per hand: the raw pose of the last processed frame
                        \* and for how many consecutive frames it was seen
    pinchLog,           \* per hand: the pinch in progress, from the inputs
    hoverLog,           \* the button the right cursor is inside, and since when
    clickLog,           \* per button: the time since its last registered click
    drawn,              \* the workspace as the last frame drew it
    downloads,          \* the file the last step handed to the browser, or ""
    project,            \* the document the last step serialized to JSON
    \* ---- ui/toolbar.js
    toolbarButtons,     \* per tool id: the button's hover and click state
    toolbarMinimized,
    activeTool,
    \* ---- ui/exportMenu.js, ui/noteEditor.js
    exportMenu,         \* isOpen, menuX, menuY, hoveredItemId
    editor,             \* isOpen, editingNoteId and the textarea's value
    \* ---- main.js
    hoveredNoteId,
    isDragging,
    isPanning,
    toast,              \* toastMessage and the time since toastStartTime
    latestResults,      \* "null" until the tracker has delivered results
    boot,               \* init(): its progress, isRunning and the two screens
    \* ---- export/exportManager.js
    pngPending,         \* PNG exports whose toBlob callback has not run yet
    \* ---- server.js
    server              \* the files under ROOT, the requests being read and
                        \* the last response

wsVars == <<notes, links, zoom, offsetX, offsetY, selectedNoteIds,
            linkSourceId, noteCounter, linkCounter>>

geVars == <<rightHand, leftHand, twoHand, interactionMode, rawRun, pinchLog>>

uiVars == <<toolbarButtons, toolbarMinimized, activeTool, exportMenu, editor,
            hoveredNoteId, isDragging, isPanning, toast, latestResults,
            hoverLog, clickLog, drawn, downloads, project, boot, server,
            pngPending>>

\* everything outside the workspace data layer
outsideWs == <<geVars, uiVars>>

vars == <<notes, links, zoom, offsetX, offsetY, selectedNoteIds,
          linkSourceId, noteCounter, linkCounter,
          rightHand, leftHand, twoHand, interactionMode, lastOp, rawRun,
          pinchLog, hoverLog, toolbarButtons, toolbarMinimized, activeTool,
          exportMenu, editor, hoveredNoteId, isDragging, isPanning, toast,
          latestResults, clickLog, drawn, downloads, project, boot, server,
          pngPending>>

---------------------------------------------------------------------------
(* Generic helpers *)

NULL == 0

Max(a, b) == IF a >= b THEN a ELSE b
Min(a, b) == IF a <= b THEN a ELSE b
Abs(a) == IF a >= 0 THEN a ELSE 0 - a

RECURSIVE SeqFilter(_, _)
\* Array.prototype.filter with the predicate given as the set of kept elements
SeqFilter(s, keep) ==
    IF s = <<>> THEN <<>>
    ELSE IF Head(s) \in keep THEN <<Head(s)>> \o SeqFilter(Tail(s), keep)
         ELSE SeqFilter(Tail(s), keep)

Range(s) == {s[i] : i \in 1..Len(s)}

\* Array.prototype.includes
Includes(s, e) == \E i \in 1..Len(s) : s[i] = e

Op(name, a, b, r) == [op |-> name, id |-> a, id2 |-> b, ret |-> r]

---------------------------------------------------------------------------
(* workspaceState.js *)

ZOOM_ONE == 100         \* the fixed-point representation of zoom 1.0
FACTOR_ONE == 1000      \* the fixed-point representation of factor 1.0
MIN_ZOOM == 30          \* 0.3
MAX_ZOOM == 300         \* 3.0
ZOOM_IN_FACTOR == 1080  \* 1.08
ZOOM_OUT_FACTOR == 920  \* 0.92
FIT_PADDING == 200
NOTE_WIDTH == 200
NOTE_HEIGHT == 120
NUM_COLORS == 8

\* sx / workspace.zoom
Unzoom(s, z) == (s * ZOOM_ONE) \div z

\* a clamp without the upper limit
ClampZoomNoCeiling(z) == Max(MIN_ZOOM, z)

\* Math.max(MIN_ZOOM, Math.min(MAX_ZOOM, z))
ClampZoom(z) == Max(MIN_ZOOM, Min(MAX_ZOOM, z))

\* worldToScreen(wx, wy) under zoom z and offsets ox, oy
worldToScreen(z, ox, oy, wx, wy) ==
    [x |-> ((wx + ox) * z) \div ZOOM_ONE,
     y |-> ((wy + oy) * z) \div ZOOM_ONE]

\* screenToWorld(sx, sy) under zoom z and offsets ox, oy
screenToWorld(z, ox, oy, sx, sy) ==
    [x |-> Unzoom(sx, z) - ox,
     y |-> Unzoom(sy, z) - oy]

\* applyZoomFactor without its two assignments to the offsets
ZoomFactorResultOffsetsKept(z, ox, oy, factor, centerX, centerY) ==
    LET newZoom == ClampZoom((z * factor) \div FACTOR_ONE)
    IN  IF Abs(newZoom - z) * 1000 < ZOOM_ONE
        THEN <<z, ox, oy>>
        ELSE <<newZoom, ox, oy>>

\* The new <<zoom, offsetX, offsetY>> of applyZoomFactor(factor, cx, cy)
ZoomFactorResult(z, ox, oy, factor, centerX, centerY) ==
    LET oldZoom == z
        newZoom == ClampZoom((oldZoom * factor) \div FACTOR_ONE)
        worldX == Unzoom(centerX, oldZoom) - ox
        worldY == Unzoom(centerY, oldZoom) - oy
    IN  IF Abs(newZoom - oldZoom) * 1000 < ZOOM_ONE
        THEN <<z, ox, oy>>
        ELSE <<newZoom, Unzoom(centerX, newZoom) - worldX,
                        Unzoom(centerY, newZoom) - worldY>>

\* The new <<zoom, offsetX, offsetY>> of applyZoom(delta, cx, cy)
ZoomResult(z, ox, oy, delta, centerX, centerY) ==
    LET oldZoom == z
        factor == IF delta > 0 THEN ZOOM_IN_FACTOR ELSE ZOOM_OUT_FACTOR
        newZoom == ClampZoom((oldZoom * factor) \div FACTOR_ONE)
        worldX == Unzoom(centerX, oldZoom) - ox
        worldY == Unzoom(centerY, oldZoom) - oy
    IN  IF newZoom = oldZoom
        THEN <<z, ox, oy>>
        ELSE <<newZoom, Unzoom(centerX, newZoom) - worldX,
                        Unzoom(centerY, newZoom) - worldY>>

\* The new <<offsetX, offsetY>> of applyPan(dx, dy)
PanResult(z, ox, oy, dxScreen, dyScreen) ==
    <<ox + Unzoom(dxScreen, z), oy + Unzoom(dyScreen, z)>>

SetMin(S) == CHOOSE m \in S : \A e \in S : m <= e
SetMax(S) == CHOOSE m \in S : \A e \in S : m >= e

\* The new <<zoom, offsetX, offsetY>> of zoomToFit(canvasWidth, canvasHeight)
\* over the notes ns
FitResult(ns, canvasWidth, canvasHeight) ==
    IF Len(ns) = 0
    THEN <<ZOOM_ONE, 0, 0>>
    ELSE LET minX == SetMin({ns[i].x : i \in 1..Len(ns)})
             minY == SetMin({ns[i].y : i \in 1..Len(ns)})
             maxX == SetMax({ns[i].x + ns[i].width : i \in 1..Len(ns)})
             maxY == SetMax({ns[i].y + ns[i].height : i \in 1..Len(ns)})
             worldWidth == maxX - minX + FIT_PADDING
             worldHeight == maxY - minY + FIT_PADDING
             zoomX == (canvasWidth * ZOOM_ONE) \div worldWidth
             zoomY == (canvasHeight * ZOOM_ONE) \div worldHeight
             z == ClampZoom(Min(zoomX, zoomY))
         IN  <<z,
               (Unzoom(canvasWidth, z) - (minX + maxX)) \div 2
                   + Unzoom(FIT_PADDING \div 2, z),
               (Unzoom(canvasHeight, z) - (minY + maxY)) \div 2
                   + Unzoom(FIT_PADDING \div 2, z)>>

\* notes with every note's selected flag recomputed from the id list sel
FlagsFrom(ns, sel) ==
    [i \in 1..Len(ns) |-> [ns[i] EXCEPT !.selected = Includes(sel, ns[i].id)]]

\* notes with every selected flag cleared
FlagsCleared(ns) ==
    [i \in 1..Len(ns) |-> [ns[i] EXCEPT !.selected = FALSE]]

\* selection.selectedNoteIds after selectNote(noteId, addToSelection)
SelectedAfterSelect(sel, noteId, addToSelection) ==
    LET base == IF addToSelection THEN sel ELSE <<>>
    IN  IF Includes(base, noteId) THEN base ELSE Append(base, noteId)

\* workspace.notes after selectNote(noteId, addToSelection)
NotesAfterSelect(ns, sel, noteId, addToSelection) ==
    FlagsFrom(ns, SelectedAfterSelect(sel, noteId, addToSelection))

\* a deselect that leaves the note's flag alone
NotesAfterDeselectStale(ns, noteId) == ns

\* workspace.notes after deselectNote(noteId): only the first match is cleared
NotesAfterDeselect(ns, noteId) ==
    IF \E i \in 1..Len(ns) : ns[i].id = noteId
    THEN LET k == CHOOSE i \in 1..Len(ns) :
                    /\ ns[i].id = noteId
                    /\ \A j \in 1..(i - 1) : ns[j].id # noteId
         IN  [ns EXCEPT ![k].selected = FALSE]
    ELSE ns

getSelectedNotes(ns) == SeqFilter(ns, {n \in Range(ns) : n.selected})

---------------------------------------------------------------------------
(* linkModel.js *)

\* a duplicate check that looks at one direction only
LinkExistsDirected(ls, fromId, toId) ==
    \E i \in 1..Len(ls) : ls[i].from = fromId /\ ls[i].to = toId

\* the `exists` test of createLink: the pair is linked in either direction
LinkExists(ls, fromId, toId) ==
    \E i \in 1..Len(ls) :
        \/ (ls[i].from = fromId /\ ls[i].to = toId)
        \/ (ls[i].from = toId /\ ls[i].to = fromId)

\* createLink(fromId, toId) returns a link (TRUE) or null (FALSE)
CreatesLink(ls, fromId, toId) ==
    fromId # toId /\ ~LinkExists(ls, fromId, toId)

\* workspace.links after createLink(fromId, toId) with link counter cnt
LinksAfterCreate(ls, cnt, fromId, toId) ==
    IF CreatesLink(ls, fromId, toId)
    THEN Append(ls, [id |-> cnt + 1, from |-> fromId, to |-> toId])
    ELSE ls

\* workspace.links after deleteLink(id)
LinksAfterDelete(ls, id) ==
    SeqFilter(ls, {l \in Range(ls) : l.id # id})

\* a cascade that prunes outgoing links only
deleteLinksFromNote(ls, noteId) ==
    SeqFilter(ls, {l \in Range(ls) : l.from # noteId})

\* workspace.links after deleteLinksForNote(noteId)
deleteLinksForNote(ls, noteId) ==
    SeqFilter(ls, {l \in Range(ls) : l.from # noteId /\ l.to # noteId})

getLinksForNote(ls, noteId) ==
    SeqFilter(ls, {l \in Range(ls) : l.from = noteId \/ l.to = noteId})

---------------------------------------------------------------------------
(* noteModel.js *)

\* the note record built by createNote(worldX, worldY, text) with counter cnt
NewNote(cnt, worldX, worldY, text) ==
    [id |-> cnt + 1,
     x |-> worldX - NOTE_WIDTH \div 2,
     y |-> worldY - NOTE_HEIGHT \div 2,
     width |-> NOTE_WIDTH,
     height |-> NOTE_HEIGHT,
     text |-> text,
     selected |-> FALSE,
     color |-> (cnt + 1) % NUM_COLORS]

\* <<notes, links, selectedNoteIds>> after deleteNote(id)
DeleteNoteResult(ns, ls, sel, id) ==
    <<SeqFilter(ns, {n \in Range(ns) : n.id # id}),
      deleteLinksForNote(ls, id),
      SeqFilter(sel, {s \in Range(sel) : s # id})>>

RECURSIVE DeleteAll(_, _, _, _)
\* <<notes, links, selectedNoteIds>> after deleteNote on each id of ids in order
DeleteAll(ns, ls, sel, ids) ==
    IF ids = <<>> THEN <<ns, ls, sel>>
    ELSE LET r == DeleteNoteResult(ns, ls, sel, Head(ids))
         IN  DeleteAll(r[1], r[2], r[3], Tail(ids))

\* <<notes, links, selectedNoteIds>> after deleteSelectedNotes()
DeleteSelectedResult(ns, ls, sel) ==
    LET r == DeleteAll(ns, ls, sel, sel)
    IN  <<FlagsCleared(r[1]), r[2], <<>>>>

\* workspace.notes after moveNote(id, dx, dy): only the first match moves
NotesAfterMove(ns, id, dx, dy) ==
    IF \E i \in 1..Len(ns) : ns[i].id = id
    THEN LET k == CHOOSE i \in 1..Len(ns) :
                    /\ ns[i].id = id
                    /\ \A j \in 1..(i - 1) : ns[j].id # id
         IN  [ns EXCEPT ![k].x = @ + dx, ![k].y = @ + dy]
    ELSE ns

RECURSIVE MoveAll(_, _, _, _)
\* workspace.notes after moveSelectedNotes(dx, dy) over the id list ids
MoveAll(ns, ids, dx, dy) ==
    IF ids = <<>> THEN ns
    ELSE MoveAll(NotesAfterMove(ns, Head(ids), dx, dy), Tail(ids), dx, dy)

\* a hit test that walks workspace.notes from the front
hitTestNoteFromFront(ns, worldX, worldY) ==
    LET hits == {i \in 1..Len(ns) :
                    /\ worldX >= ns[i].x
                    /\ worldX <= ns[i].x + ns[i].width
                    /\ worldY >= ns[i].y
                    /\ worldY <= ns[i].y + ns[i].height}
    IN  IF hits = {} THEN 0 ELSE SetMin(hits)

\* the note hit by hitTestNote(worldX, worldY): its index in ns, or 0 for null
hitTestNote(ns, worldX, worldY) ==
    LET hits == {i \in 1..Len(ns) :
                    /\ worldX >= ns[i].x
                    /\ worldX <= ns[i].x + ns[i].width
                    /\ worldY >= ns[i].y
                    /\ worldY <= ns[i].y + ns[i].height}
    IN  IF hits = {} THEN 0 ELSE SetMax(hits)

\* workspace.notes after updateNoteText(id, newText)
NotesAfterText(ns, id, newText) ==
    IF \E i \in 1..Len(ns) : ns[i].id = id
    THEN LET k == CHOOSE i \in 1..Len(ns) :
                    /\ ns[i].id = id
                    /\ \A j \in 1..(i - 1) : ns[j].id # id
         IN  [ns EXCEPT ![k].text = newText]
    ELSE ns

getNoteById(ns, id) ==
    IF \E i \in 1..Len(ns) : ns[i].id = id
    THEN CHOOSE i \in 1..Len(ns) :
            /\ ns[i].id = id
            /\ \A j \in 1..(i - 1) : ns[j].id # id
    ELSE 0

---------------------------------------------------------------------------
(* gestureEngine.js *)

PINCH_THRESHOLD == 60       \* 0.06
PINCH_DEBOUNCE_MS == 120
RELEASE_THRESHOLD == 90     \* 0.09
SMOOTHING_NUM == 4          \* SMOOTHING_FACTOR 0.4 = SMOOTHING_NUM / SMOOTHING_DEN
SMOOTHING_DEN == 10
GESTURE_CONFIRM_FRAMES == 3
EXTENDED_MARGIN == 20       \* 0.02
CURLED_MARGIN == 10         \* 0.01
MIN_PREV_DIST == 10
ZOOM_DAMP_NUM == 6          \* 0.6 = ZOOM_DAMP_NUM / ZOOM_DAMP_DEN
ZOOM_DAMP_DEN == 10

Point(px, py) == [x |-> px, y |-> py]

(***************************************************************************)
(* A hand as the tracker reports it.  The 21 landmarks are represented by  *)
(* what the engine reads from them:                                        *)
(*   tid        the distance between THUMB_TIP and INDEX_TIP;              *)
(*   idx .. pky for each finger, tip.y - mcp.y;                            *)
(*   tipX, tipY the index finger tip, tipX in units of 1/canvasWidth and   *)
(*              tipY in units of 1/canvasHeight of the camera image.       *)
(* SHORT stands for a landmark array with fewer than 21 points and NOHAND  *)
(* for null.                                                               *)
(***************************************************************************)
NOHAND == [kind |-> "null"]
SHORT == [kind |-> "short"]
Landmarks(shape, tx, ty) ==
    [kind |-> "full", shape |-> shape, tipX |-> tx, tipY |-> ty]

\* the test `!landmarks || landmarks.length < 21`
Unusable(lm) == lm.kind # "full"

Shape(t, i, m, r, p) == [tid |-> t, idx |-> i, mid |-> m, ring |-> r, pky |-> p]

\* createHandState(); pinchElapsed stands for performance.now() -
\* pinchStartTime, read only while isPinching and not beyond PINCH_DEBOUNCE_MS
createHandState ==
    [detected |-> FALSE,
     smoothCursor |-> Point(0, 0),
     prevSmoothCursor |-> Point(0, 0),
     isPinching |-> FALSE,
     pinchElapsed |-> 0,
     pinchConfirmed |-> FALSE,
     pinchJustConfirmed |-> FALSE,
     pinchJustReleased |-> FALSE,
     gestureMode |-> "none",
     prevGestureMode |-> "none",
     gestureCandidate |-> "none",
     gestureCandidateFrames |-> 0]

\* the initial twoHand object, also what resetTwoHand() leaves
resetTwoHand ==
    [active |-> FALSE,
     mode |-> "none",
     interHandDist |-> 0,
     prevInterHandDist |-> 0,
     zoomFactor |-> FACTOR_ONE,
     midpoint |-> Point(0, 0),
     prevMidpoint |-> Point(0, 0),
     panDelta |-> Point(0, 0)]

RECURSIVE SqrtBetween(_, _, _)
\* the largest r in lo..hi with r * r <= n
SqrtBetween(n, lo, hi) ==
    IF lo >= hi THEN lo
    ELSE LET mid == (lo + hi + 1) \div 2
         IN  IF mid * mid <= n THEN SqrtBetween(n, mid, hi)
             ELSE SqrtBetween(n, lo, mid - 1)

\* Math.sqrt, rounded down; the root of a 32-bit n is at most 46340
Sqrt(n) == SqrtBetween(n, 0, Min(n, 46340))

\* dist(a, b)
dist(a, b) == Sqrt((a.x - b.x) * (a.x - b.x) + (a.y - b.y) * (a.y - b.y))

isFingerExtended(d) == d < 0 - EXTENDED_MARGIN
isFingerCurled(d) == d > CURLED_MARGIN

\* smooth(current, previous, SMOOTHING_FACTOR)
smooth(current, previous) ==
    previous + ((current - previous) * SMOOTHING_NUM) \div SMOOTHING_DEN

classifyGesture(lm) ==
    IF lm.tid < PINCH_THRESHOLD THEN "pinch"
    ELSE IF /\ isFingerCurled(lm.idx) /\ isFingerCurled(lm.mid)
            /\ isFingerCurled(lm.ring) /\ isFingerCurled(lm.pky) THEN "fist"
    ELSE IF /\ isFingerExtended(lm.idx) /\ isFingerExtended(lm.mid)
            /\ isFingerExtended(lm.ring) /\ isFingerExtended(lm.pky) THEN "open"
    ELSE IF /\ isFingerExtended(lm.idx) /\ isFingerCurled(lm.mid)
            /\ isFingerCurled(lm.ring) /\ isFingerCurled(lm.pky) THEN "point"
    ELSE IF isFingerExtended(lm.idx) THEN "point"
    ELSE "none"

\* resetOneHand that leaves the pinch state machine as it was
resetOneHandKeepsPinch(h) ==
    [h EXCEPT !.detected = FALSE,
              !.pinchJustConfirmed = FALSE,
              !.pinchJustReleased = FALSE,
              !.gestureMode = "none",
              !.prevGestureMode = "none",
              !.gestureCandidate = "none",
              !.gestureCandidateFrames = 0]

resetOneHand(h) ==
    [h EXCEPT !.detected = FALSE,
              !.isPinching = FALSE,
              !.pinchElapsed = 0,
              !.pinchConfirmed = FALSE,
              !.pinchJustConfirmed = FALSE,
              !.pinchJustReleased = FALSE,
              !.gestureMode = "none",
              !.prevGestureMode = "none",
              !.gestureCandidate = "none",
              !.gestureCandidateFrames = 0]

\* a pose debounce that commits one frame early
ConfirmFramesReachedEarly(frames) == frames >= GESTURE_CONFIRM_FRAMES - 1

\* gestureCandidateFrames >= GESTURE_CONFIRM_FRAMES
ConfirmFramesReached(frames) == frames >= GESTURE_CONFIRM_FRAMES

\* a pinch debounce that confirms at once
DebounceElapsedAtOnce(elapsed) == elapsed >= 0

\* elapsed >= PINCH_DEBOUNCE_MS
DebounceElapsed(elapsed) == elapsed >= PINCH_DEBOUNCE_MS

\* a pinch that is confirmed again on every frame it lasts
PinchNotYetConfirmedEver(isPinching, confirmed) == isPinching

\* the condition `handState.isPinching && !handState.pinchConfirmed`
PinchNotYetConfirmed(isPinching, confirmed) == isPinching /\ ~confirmed

\* processOneHand(handState, landmarks, canvasWidth, canvasHeight) on a frame
\* that comes dt ms after the previous one
processOneHand(h, lm, canvasWidth, canvasHeight, dt) ==
    IF Unusable(lm) THEN resetOneHand(h)
    ELSE
    LET rawX == canvasWidth - lm.tipX
        rawY == lm.tipY
        rawGesture == classifyGesture(lm.shape)
        sameCandidate == rawGesture = h.gestureCandidate
        frames == IF sameCandidate
                  THEN Min(h.gestureCandidateFrames + 1, GESTURE_CONFIRM_FRAMES)
                  ELSE 1
        wasPinching == h.isPinching
        engage == ~wasPinching /\ lm.shape.tid < PINCH_THRESHOLD
        release == ~engage /\ wasPinching /\ lm.shape.tid > RELEASE_THRESHOLD
        isPinching == IF engage THEN TRUE ELSE IF release THEN FALSE
                      ELSE wasPinching
        confirmed0 == IF engage \/ release THEN FALSE ELSE h.pinchConfirmed
        elapsed == IF engage \/ release \/ ~wasPinching THEN 0
                   ELSE h.pinchElapsed + dt
        confirmNow == /\ PinchNotYetConfirmed(isPinching, confirmed0)
                      /\ DebounceElapsed(elapsed)
    IN  [detected |-> TRUE,
         smoothCursor |-> Point(smooth(rawX, h.smoothCursor.x),
                                smooth(rawY, h.smoothCursor.y)),
         prevSmoothCursor |-> h.smoothCursor,
         isPinching |-> isPinching,
         pinchElapsed |-> IF isPinching THEN Min(elapsed, PINCH_DEBOUNCE_MS)
                          ELSE 0,
         pinchConfirmed |-> confirmed0 \/ confirmNow,
         pinchJustConfirmed |-> confirmNow,
         pinchJustReleased |-> release /\ h.pinchConfirmed,
         gestureMode |-> IF ConfirmFramesReached(frames) THEN rawGesture
                         ELSE h.gestureMode,
         prevGestureMode |-> h.gestureMode,
         gestureCandidate |-> rawGesture,
         gestureCandidateFrames |-> frames]

\* a combo detection that looks at the open hands first
TwoHandModeOpenFirst(bothPinching, bothOpen) ==
    IF bothOpen THEN "pan" ELSE IF bothPinching THEN "zoom" ELSE "none"

\* the branch order of "Detect two-hand mode"
TwoHandMode(bothPinching, bothOpen) ==
    IF bothPinching THEN "zoom" ELSE IF bothOpen THEN "pan" ELSE "none"

\* processTwoHandCombos() that only ends the combo when a hand is missing
processTwoHandCombosKeepsState(th, r, l) ==
    IF ~r.detected \/ ~l.detected
    THEN [th EXCEPT !.active = FALSE, !.mode = "none"]
    ELSE
    LET rCursor == r.smoothCursor
        lCursor == l.smoothCursor
        prevInter == th.interHandDist
        inter == dist(rCursor, lCursor)
        prevMid == th.midpoint
        mid == Point((rCursor.x + lCursor.x) \div 2, (rCursor.y + lCursor.y) \div 2)
        bothPinching == r.pinchConfirmed /\ l.pinchConfirmed
        bothOpen == r.gestureMode = "open" /\ l.gestureMode = "open"
        mode == TwoHandMode(bothPinching, bothOpen)
        ratio == (inter * FACTOR_ONE) \div prevInter
    IN  [active |-> mode # "none",
         mode |-> mode,
         interHandDist |-> inter,
         prevInterHandDist |-> prevInter,
         zoomFactor |-> IF mode = "zoom" /\ prevInter > MIN_PREV_DIST
                        THEN FACTOR_ONE
                             + ((ratio - FACTOR_ONE) * ZOOM_DAMP_NUM) \div ZOOM_DAMP_DEN
                        ELSE IF mode = "pan" THEN th.zoomFactor
                        ELSE FACTOR_ONE,
         midpoint |-> mid,
         prevMidpoint |-> prevMid,
         panDelta |-> IF mode = "zoom" THEN th.panDelta
                      ELSE IF mode = "pan" /\ (prevMid.x # 0 \/ prevMid.y # 0)
                      THEN Point(mid.x - prevMid.x, mid.y - prevMid.y)
                      ELSE Point(0, 0)]

\* processTwoHandCombos() for the hand states r and l of this frame
processTwoHandCombos(th, r, l) ==
    IF ~r.detected \/ ~l.detected THEN resetTwoHand
    ELSE
    LET rCursor == r.smoothCursor
        lCursor == l.smoothCursor
        prevInter == th.interHandDist
        inter == dist(rCursor, lCursor)
        prevMid == th.midpoint
        mid == Point((rCursor.x + lCursor.x) \div 2, (rCursor.y + lCursor.y) \div 2)
        bothPinching == r.pinchConfirmed /\ l.pinchConfirmed
        bothOpen == r.gestureMode = "open" /\ l.gestureMode = "open"
        mode == TwoHandMode(bothPinching, bothOpen)
        ratio == (inter * FACTOR_ONE) \div prevInter
    IN  [active |-> mode # "none",
         mode |-> mode,
         interHandDist |-> inter,
         prevInterHandDist |-> prevInter,
         zoomFactor |-> IF mode = "zoom" /\ prevInter > MIN_PREV_DIST
                        THEN FACTOR_ONE
                             + ((ratio - FACTOR_ONE) * ZOOM_DAMP_NUM) \div ZOOM_DAMP_DEN
                        ELSE IF mode = "pan" THEN th.zoomFactor
                        ELSE FACTOR_ONE,
         midpoint |-> mid,
         prevMidpoint |-> prevMid,
         panDelta |-> IF mode = "zoom" THEN th.panDelta
                      ELSE IF mode = "pan" /\ (prevMid.x # 0 \/ prevMid.y # 0)
                      THEN Point(mid.x - prevMid.x, mid.y - prevMid.y)
                      ELSE Point(0, 0)]

\* resolveInteractionMode() with the left hand ahead of the right
resolveInteractionModeLeftFirst(th, r, l) ==
    IF th.active /\ th.mode = "zoom" THEN "two_hand_zoom"
    ELSE IF th.active /\ th.mode = "pan" THEN "two_hand_pan"
    ELSE IF l.detected /\ l.gestureMode # "none" THEN "single_left"
    ELSE IF r.detected /\ r.gestureMode # "none" THEN "single_right"
    ELSE "idle"

\* resolveInteractionMode() for the states of this frame
resolveInteractionMode(th, r, l) ==
    IF th.active /\ th.mode = "zoom" THEN "two_hand_zoom"
    ELSE IF th.active /\ th.mode = "pan" THEN "two_hand_pan"
    ELSE IF r.detected /\ r.gestureMode # "none" THEN "single_right"
    ELSE IF l.detected /\ l.gestureMode # "none" THEN "single_left"
    ELSE "idle"

(***************************************************************************)
(* results is what the tracker delivered: a sequence of at most two hands, *)
(* each [label, lm] with the handedness label and the landmarks.           *)
(***************************************************************************)
RECURSIVE LastWithLabel(_, _)
\* the landmarks of the last hand of results labelled label, NOHAND if none
LastWithLabel(results, label) ==
    IF results = <<>> THEN NOHAND
    ELSE LET rest == LastWithLabel(Tail(results), label)
         IN  IF rest.kind # "null" THEN rest
             ELSE IF Head(results).label = label THEN Head(results).lm
             ELSE NOHAND

\* the rightLandmarks of processAllHands
rightLandmarks(results) ==
    LET r == LastWithLabel(results, "Left")
        l == LastWithLabel(results, "Right")
    IN  IF Len(results) = 1 /\ r.kind = "null" /\ l.kind = "null"
        THEN results[1].lm
        ELSE r

\* the leftLandmarks of processAllHands
leftLandmarks(results) == LastWithLabel(results, "Right")

\* the raw pose of landmarks, "" when the hand is reset
RawPose(lm) == IF Unusable(lm) THEN "" ELSE classifyGesture(lm.shape)

\* the run of equal raw poses, counted up to GESTURE_CONFIRM_FRAMES
RunAfter(run, lm) ==
    IF RawPose(lm) = "" THEN [pose |-> "", count |-> 0]
    ELSE IF run.pose = RawPose(lm)
         THEN [pose |-> run.pose,
               count |-> Min(run.count + 1, GESTURE_CONFIRM_FRAMES)]
         ELSE [pose |-> RawPose(lm), count |-> 1]

\* whether a hand state shows a confirmed pinch
ShowsConfirmed(h) == h.pinchConfirmed \/ h.pinchJustConfirmed

IdleLog == [phase |-> "idle", age |-> 0, seen |-> FALSE]

(***************************************************************************)
(* The record of the pinch a hand is making, kept from the landmarks and   *)
(* the frame times alone: phase is "held" from the frame that sees the     *)
(* thumb-index distance below PINCH_THRESHOLD to the frame that sees it    *)
(* above RELEASE_THRESHOLD, which is "released"; age is the time since the *)
(* engage frame, counted up to PINCH_DEBOUNCE_MS; seen tells whether the   *)
(* hand state h showed a confirmed pinch on any frame of this pinch.       *)
(***************************************************************************)
LogAfter(log, lm, dt, h) ==
    IF Unusable(lm) THEN IdleLog
    ELSE IF log.phase = "held"
         THEN [phase |-> IF lm.shape.tid > RELEASE_THRESHOLD THEN "released"
                         ELSE "held",
               age |-> Min(log.age + dt, PINCH_DEBOUNCE_MS),
               seen |-> log.seen \/ ShowsConfirmed(h)]
    ELSE IF lm.shape.tid < PINCH_THRESHOLD
         THEN [phase |-> "held", age |-> 0, seen |-> ShowsConfirmed(h)]
    ELSE IdleLog

\* what processAllHands(results, canvasWidth, canvasHeight) leaves in
\* rightHand, leftHand, twoHand and interactionMode
HandsAfter(results, canvasWidth, canvasHeight, dt) ==
    LET r == CHOOSE h \in {processOneHand(rightHand, rightLandmarks(results),
                                          canvasWidth, canvasHeight, dt)} : TRUE
        l == CHOOSE h \in {processOneHand(leftHand, leftLandmarks(results),
                                          canvasWidth, canvasHeight, dt)} : TRUE
        th == processTwoHandCombos(twoHand, r, l)
    IN  [right |-> r, left |-> l, twoHand |-> th,
         mode |-> resolveInteractionMode(th, r, l)]

\* the engine state `after` that processAllHands leaves, and the records
\* kept beside it
EngineBecomes(after, results, dt) ==
    /\ rightHand' = after.right
    /\ leftHand' = after.left
    /\ twoHand' = after.twoHand
    /\ interactionMode' = after.mode
    /\ rawRun' = [right |-> RunAfter(rawRun.right, rightLandmarks(results)),
                  left |-> RunAfter(rawRun.left, leftLandmarks(results))]
    /\ pinchLog' = [right |-> LogAfter(pinchLog.right, rightLandmarks(results),
                                       dt, after.right),
                    left |-> LogAfter(pinchLog.left, leftLandmarks(results),
                                      dt, after.left)]

\* processAllHands(results, canvasWidth, canvasHeight)
processAllHands(results, canvasWidth, canvasHeight, dt) ==
    \E after \in {HandsAfter(results, canvasWidth, canvasHeight, dt)} :
        EngineBecomes(after, results, dt)

\* resetAllHands()
resetAllHands ==
    /\ rightHand' = resetOneHand(rightHand)
    /\ leftHand' = resetOneHand(leftHand)
    /\ twoHand' = resetTwoHand
    /\ interactionMode' = "idle"
    /\ rawRun' = [right |-> [pose |-> "", count |-> 0],
                  left |-> [pose |-> "", count |-> 0]]
    /\ pinchLog' = [right |-> IdleLog, left |-> IdleLog]

\* the gesture engine's module state after load
InitGesture ==
    /\ rightHand = createHandState
    /\ leftHand = createHandState
    /\ twoHand = resetTwoHand
    /\ interactionMode = "idle"
    /\ rawRun = [right |-> [pose |-> "", count |-> 0],
                 left |-> [pose |-> "", count |-> 0]]
    /\ pinchLog = [right |-> IdleLog, left |-> IdleLog]

---------------------------------------------------------------------------
(* ui/toolbar.js *)

BUTTON_WIDTH == 68
BUTTON_HEIGHT == 68
BUTTON_GAP == 10
TOOLBAR_PADDING == 16
TOOLBAR_INSET == 6
HOVER_DELAY_MS == 250
CLICK_DEBOUNCE_MS == 500

TOOLS == <<"select", "note", "link", "delete", "download", "fit", "toggle">>

\* the position of the tool id in TOOLS
ToolIndex(id) == CHOOSE i \in 1..Len(TOOLS) : TOOLS[i] = id

\* the layout createToolbar(canvasHeight) gives the button of tool id
ButtonBox(id, canvasHeight) ==
    LET totalHeight == Len(TOOLS) * (BUTTON_HEIGHT + BUTTON_GAP) - BUTTON_GAP
        startY == (canvasHeight - totalHeight) \div 2
    IN  [x |-> TOOLBAR_PADDING + TOOLBAR_INSET,
         y |-> startY + (ToolIndex(id) - 1) * (BUTTON_HEIGHT + BUTTON_GAP),
         width |-> BUTTON_WIDTH,
         height |-> BUTTON_HEIGHT]

(***************************************************************************)
(* The mutable part of the buttons createToolbar builds.  hoverElapsed     *)
(* stands for performance.now() - hoverStartTime, read only while          *)
(* isHovered and counted up to HOVER_DELAY_MS; clickElapsed stands for     *)
(* performance.now() - lastClickTime, counted up to CLICK_DEBOUNCE_MS: the *)
(* page has been loading for longer than that when the first frame runs.   *)
(***************************************************************************)
createToolbar ==
    [id \in Range(TOOLS) |->
        [isHovered |-> FALSE, hoverElapsed |-> 0,
         clickElapsed |-> CLICK_DEBOUNCE_MS]]

\* the buttons dt ms later
ButtonsLater(btns, dt) ==
    [id \in DOMAIN btns |->
        [isHovered |-> btns[id].isHovered,
         hoverElapsed |-> IF btns[id].isHovered
                          THEN Min(btns[id].hoverElapsed + dt, HOVER_DELAY_MS)
                          ELSE 0,
         clickElapsed |-> Min(btns[id].clickElapsed + dt, CLICK_DEBOUNCE_MS)]]

isInsideButton(cursor, box) ==
    /\ cursor.x >= box.x
    /\ cursor.x <= box.x + box.width
    /\ cursor.y >= box.y
    /\ cursor.y <= box.y + box.height

\* what the loop body of checkToolbarHover, and checkSingleButtonHover,
\* leave in one button
HoverUpdate(btn, inside) ==
    IF inside
    THEN [btn EXCEPT !.isHovered = TRUE,
                     !.hoverElapsed = IF btn.isHovered THEN @ ELSE 0]
    ELSE [btn EXCEPT !.isHovered = FALSE, !.hoverElapsed = 0]

\* the buttons checkToolbarHover(cursor) looks at
HoverChecked(minimized) == IF minimized THEN {"toggle"} ELSE Range(TOOLS)

\* checkToolbarHover(cursor): the buttons it leaves and the id of the
\* hovered button it returns ("" for null)
checkToolbarHover(btns, minimized, cursor, canvasHeight) ==
    LET inside == {id \in HoverChecked(minimized) :
                      isInsideButton(cursor, ButtonBox(id, canvasHeight))}
    IN  [buttons |-> [id \in DOMAIN btns |->
                        IF id \in HoverChecked(minimized)
                        THEN HoverUpdate(btns[id], id \in inside)
                        ELSE btns[id]],
         hovered |-> IF inside = {} THEN ""
                     ELSE TOOLS[SetMax({ToolIndex(id) : id \in inside})]]

\* the tests without the one on lastClickTime
ClickableUndebounced(btn) ==
    /\ btn.isHovered
    /\ btn.hoverElapsed >= HOVER_DELAY_MS

\* the three tests a button passes before checkToolbarClick registers a click
Clickable(btn) ==
    /\ btn.isHovered
    /\ btn.hoverElapsed >= HOVER_DELAY_MS
    /\ btn.clickElapsed >= CLICK_DEBOUNCE_MS

\* checkToolbarClick that makes every clicked button but toggle the active
\* tool
checkToolbarClickAnyTool(btns, minimized, tool, pinchJustConfirmed) ==
    LET checked == {i \in 1..Len(TOOLS) :
                       /\ minimized => TOOLS[i] = "toggle"
                       /\ Clickable(btns[TOOLS[i]])}
    IN  IF ~pinchJustConfirmed \/ checked = {}
        THEN [buttons |-> btns, minimized |-> minimized, activeTool |-> tool,
              action |-> "", clicked |-> ""]
        ELSE LET id == TOOLS[SetMin(checked)]
             IN  [buttons |-> [btns EXCEPT ![id].clickElapsed = 0],
                  minimized |-> IF id = "toggle" THEN ~minimized
                                ELSE minimized,
                  activeTool |-> IF id = "toggle" THEN tool ELSE id,
                  action |-> IF id = "toggle" THEN "" ELSE id,
                  clicked |-> id]

\* checkToolbarClick that keeps the active tool for fit and download only
checkToolbarClickDeleteTool(btns, minimized, tool, pinchJustConfirmed) ==
    LET checked == {i \in 1..Len(TOOLS) :
                       /\ minimized => TOOLS[i] = "toggle"
                       /\ Clickable(btns[TOOLS[i]])}
    IN  IF ~pinchJustConfirmed \/ checked = {}
        THEN [buttons |-> btns, minimized |-> minimized, activeTool |-> tool,
              action |-> "", clicked |-> ""]
        ELSE LET id == TOOLS[SetMin(checked)]
             IN  [buttons |-> [btns EXCEPT ![id].clickElapsed = 0],
                  minimized |-> IF id = "toggle" THEN ~minimized
                                ELSE minimized,
                  activeTool |-> IF id \in {"toggle", "fit", "download"}
                                 THEN tool ELSE id,
                  action |-> IF id = "toggle" THEN "" ELSE id,
                  clicked |-> id]

\* checkToolbarClick(cursor, pinchJustConfirmed): the state it leaves, the
\* action it returns ("" for null) and the button whose click it registered
checkToolbarClick(btns, minimized, tool, pinchJustConfirmed) ==
    LET checked == {i \in 1..Len(TOOLS) :
                       /\ minimized => TOOLS[i] = "toggle"
                       /\ Clickable(btns[TOOLS[i]])}
    IN  IF ~pinchJustConfirmed \/ checked = {}
        THEN [buttons |-> btns, minimized |-> minimized, activeTool |-> tool,
              action |-> "", clicked |-> ""]
        ELSE LET id == TOOLS[SetMin(checked)]
             IN  [buttons |-> [btns EXCEPT ![id].clickElapsed = 0],
                  minimized |-> IF id = "toggle" THEN ~minimized
                                ELSE minimized,
                  activeTool |-> IF id \in {"toggle", "fit", "delete", "download"}
                                 THEN tool ELSE id,
                  action |-> IF id = "toggle" THEN "" ELSE id,
                  clicked |-> id]

---------------------------------------------------------------------------
(* ui/exportMenu.js *)

MENU_WIDTH == 200
ITEM_HEIGHT == 42
MENU_PADDING == 8
MENU_OFFSET == 12

MENU_ITEMS == <<"json", "png">>

\* the position of the item id in MENU_ITEMS
ItemIndex(id) == CHOOSE i \in 1..Len(MENU_ITEMS) : MENU_ITEMS[i] = id

\* the module state of exportMenu.js after load
InitExportMenu ==
    [isOpen |-> FALSE, menuX |-> 0, menuY |-> 0, hoveredItemId |-> ""]

openExportMenu(menu, x, y) ==
    [isOpen |-> TRUE, menuX |-> x + MENU_OFFSET, menuY |-> y,
     hoveredItemId |-> ""]

closeExportMenu(menu) ==
    [menu EXCEPT !.isOpen = FALSE, !.hoveredItemId = ""]

\* the bounds test of checkExportMenuHover and isCursorInExportMenu
InMenuBounds(menu, cursor) ==
    /\ cursor.x >= menu.menuX
    /\ cursor.x <= menu.menuX + MENU_WIDTH
    /\ cursor.y >= menu.menuY
    /\ cursor.y <= menu.menuY + Len(MENU_ITEMS) * ITEM_HEIGHT + 2 * MENU_PADDING

\* checkExportMenuHover(cursor): the menu it leaves; its return value is the
\* hoveredItemId it leaves ("" for null)
checkExportMenuHover(menu, cursor) ==
    IF ~menu.isOpen THEN menu
    ELSE IF ~InMenuBounds(menu, cursor) THEN [menu EXCEPT !.hoveredItemId = ""]
    ELSE LET itemIndex == (cursor.y - menu.menuY - MENU_PADDING) \div ITEM_HEIGHT
         IN  [menu EXCEPT !.hoveredItemId =
                 IF itemIndex >= 0 /\ itemIndex < Len(MENU_ITEMS)
                 THEN MENU_ITEMS[itemIndex + 1] ELSE ""]

\* checkExportMenuClick(cursor, pinchJustConfirmed): the menu it leaves and
\* the item id it returns ("" for null)
checkExportMenuClick(menu, cursor, pinchJustConfirmed) ==
    IF ~menu.isOpen \/ ~pinchJustConfirmed
    THEN [menu |-> menu, action |-> ""]
    ELSE [menu |-> closeExportMenu(checkExportMenuHover(menu, cursor)),
          action |-> checkExportMenuHover(menu, cursor).hoveredItemId]

isCursorInExportMenu(menu, cursor) ==
    menu.isOpen /\ InMenuBounds(menu, cursor)

---------------------------------------------------------------------------
(* ui/noteEditor.js *)

\* the module state of noteEditor.js after load; value is textareaEl.value
InitEditor == [isOpen |-> FALSE, editingNoteId |-> NULL, value |-> ""]

\* openEditor(note)
openEditor(ed, note) ==
    [isOpen |-> TRUE, editingNoteId |-> note.id, value |-> note.text]

\* String.prototype.trim on the texts a textarea of the model can hold
Trim(str) ==
    CASE str = " " -> ""
      [] str = " \n" -> ""
      [] str = " idea " -> "idea"
      [] OTHER -> str

---------------------------------------------------------------------------
(* server.js *)

(***************************************************************************)
(* A request URL and a path are sequences of pieces: "/", "?" and the      *)
(* names between them, so '/?v=1' is <<"/", "?", "v=1">>.  A path is taken *)
(* under ROOT.                                                             *)
(***************************************************************************)
ROOT_URL == <<"/">>
INDEX_HTML == <<"/", "index.html">>
MAIN_JS == <<"/", "main.js">>

\* url.split('?')[0]
BeforeQuery(url) ==
    LET marks == {i \in 1..Len(url) : url[i] = "?"}
    IN  IF marks = {} THEN url ELSE SubSeq(url, 1, SetMin(marks) - 1)

\* let filePath = req.url === '/' ? '/index.html' : req.url;
\* filePath = filePath.split('?')[0];
filePath(url) == BeforeQuery(IF url = ROOT_URL THEN INDEX_HTML ELSE url)

\* what path.join(ROOT, filePath) names: ROOT itself is a directory, the
\* files under it are as `files` says, and no other path exists
StatOf(files, path) ==
    IF path = ROOT_URL THEN "directory"
    ELSE IF path \in DOMAIN files THEN files[path]
    ELSE "absent"

\* err.code of fs.readFile(fullPath, ...), "" when the file is read
readFileError(kind) ==
    CASE kind = "file" -> ""
      [] kind = "absent" -> "ENOENT"
      [] kind = "directory" -> "EISDIR"
      [] OTHER -> "EACCES"

\* the status the readFile callback writes
writeHead(code) ==
    IF code = "" THEN 200 ELSE IF code = "ENOENT" THEN 404 ELSE 500

NoResponse == [url |-> <<>>, fullPath |-> <<>>, error |-> "", status |-> 0]

\* the server listens, index.html and main.js are files under ROOT
InitServer ==
    [files |-> [p \in {INDEX_HTML, MAIN_JS} |-> "file"],
     reading |-> <<>>,
     response |-> NoResponse]

---------------------------------------------------------------------------
(* export/exportManager.js: the project document *)

\* no document has been serialized
NoProject == [version |-> ""]

\* the project object of exportProjectJSON that copies each note whole
ProjectDocumentWholeNotes(ns, ls, z, ox, oy) ==
    [version |-> "1.0",
     timestamp |-> "toISOString",
     workspace |-> [zoom |-> z, offsetX |-> ox, offsetY |-> oy],
     notes |-> ns,
     links |-> [i \in 1..Len(ls) |->
                  [id |-> ls[i].id, from |-> ls[i].from, to |-> ls[i].to]]]

\* the project object exportProjectJSON builds from the workspace; the
\* timestamp is the time of the call
ProjectDocument(ns, ls, z, ox, oy) ==
    [version |-> "1.0",
     timestamp |-> "toISOString",
     workspace |-> [zoom |-> z, offsetX |-> ox, offsetY |-> oy],
     notes |-> [i \in 1..Len(ns) |->
                  [id |-> ns[i].id, x |-> ns[i].x, y |-> ns[i].y,
                   width |-> ns[i].width, height |-> ns[i].height,
                   text |-> ns[i].text, color |-> ns[i].color]],
     links |-> [i \in 1..Len(ls) |->
                  [id |-> ls[i].id, from |-> ls[i].from, to |-> ls[i].to]]]

---------------------------------------------------------------------------
(* main.js: interaction processing *)

TOAST_DURATION == 2500

\* a value computed once
Once(v) == CHOOSE x \in {v} : TRUE

(***************************************************************************)
(* The frame handlers are functions from the application state to the      *)
(* application state: a record with the fields of the workspace, the       *)
(* selection, the toolbar, the export menu, the editor and main.js, and    *)
(* clicked, the toolbar button whose click the frame registered.  Elapsed  *)
(* times are taken at the frame's performance.now(), dt ms after the       *)
(* previous frame's.                                                       *)
(***************************************************************************)
AppAt(dt) ==
    [notes |-> notes, links |-> links, zoom |-> zoom,
     offsetX |-> offsetX, offsetY |-> offsetY,
     selectedNoteIds |-> selectedNoteIds, linkSourceId |-> linkSourceId,
     noteCounter |-> noteCounter, linkCounter |-> linkCounter,
     toolbarButtons |-> ButtonsLater(toolbarButtons, dt),
     toolbarMinimized |-> toolbarMinimized, activeTool |-> activeTool,
     exportMenu |-> exportMenu, editor |-> editor,
     hoveredNoteId |-> hoveredNoteId, isDragging |-> isDragging,
     isPanning |-> isPanning,
     toast |-> [toast EXCEPT !.elapsed =
                   IF toast.message = "" THEN 0
                   ELSE Min(@ + dt, TOAST_DURATION + 1)],
     clicked |-> "",
     drawn |-> drawn, pngPending |-> pngPending, download |-> "",
     project |-> NoProject, exported |-> ""]

\* getMultiHandState() over the engine state `after`
HandSnapshot(h) ==
    [detected |-> h.detected,
     cursor |-> h.smoothCursor,
     cursorDelta |-> Point(h.smoothCursor.x - h.prevSmoothCursor.x,
                           h.smoothCursor.y - h.prevSmoothCursor.y),
     gestureMode |-> h.gestureMode,
     pinchJustConfirmed |-> h.pinchJustConfirmed]

getMultiHandState(after) ==
    [mode |-> after.mode,
     right |-> HandSnapshot(after.right),
     left |-> HandSnapshot(after.left),
     twoHand |-> after.twoHand]

\* selectNote(noteId, false)
SelectIn(a, noteId) ==
    [a EXCEPT !.selectedNoteIds = SelectedAfterSelect(a.selectedNoteIds, noteId, FALSE),
              !.notes = NotesAfterSelect(a.notes, a.selectedNoteIds, noteId, FALSE)]

\* clearSelection()
ClearSelectionIn(a) ==
    [a EXCEPT !.selectedNoteIds = <<>>, !.notes = FlagsCleared(a.notes)]

\* deleteSelectedNotes()
DeleteSelectedIn(a) ==
    LET r == DeleteSelectedResult(a.notes, a.links, a.selectedNoteIds)
    IN  [a EXCEPT !.notes = r[1], !.links = r[2], !.selectedNoteIds = r[3]]

\* applyPan(dx, dy)
PanIn(a, dx, dy) ==
    LET r == PanResult(a.zoom, a.offsetX, a.offsetY, dx, dy)
    IN  [a EXCEPT !.offsetX = r[1], !.offsetY = r[2]]

\* closeEditor() saving textareaEl.value as it is
closeEditorUntrimmed(a) ==
    IF ~a.editor.isOpen THEN a
    ELSE [a EXCEPT
            !.notes = IF /\ getNoteById(a.notes, a.editor.editingNoteId) # 0
                         /\ a.editor.value # ""
                      THEN NotesAfterText(a.notes, a.editor.editingNoteId,
                                          a.editor.value)
                      ELSE a.notes,
            !.editor = [a.editor EXCEPT !.isOpen = FALSE,
                                        !.editingNoteId = NULL]]

\* closeEditor()
closeEditor(a) ==
    IF ~a.editor.isOpen THEN a
    ELSE [a EXCEPT
            !.notes = IF /\ getNoteById(a.notes, a.editor.editingNoteId) # 0
                         /\ Trim(a.editor.value) # ""
                      THEN NotesAfterText(a.notes, a.editor.editingNoteId,
                                          Trim(a.editor.value))
                      ELSE a.notes,
            !.editor = [a.editor EXCEPT !.isOpen = FALSE,
                                        !.editingNoteId = NULL]]

handleTwoHandZoom(a, mhs) ==
    IF Abs(mhs.twoHand.zoomFactor - FACTOR_ONE) * 1000 > 2 * FACTOR_ONE
    THEN LET r == ZoomFactorResult(a.zoom, a.offsetX, a.offsetY,
                                   mhs.twoHand.zoomFactor,
                                   mhs.twoHand.midpoint.x,
                                   mhs.twoHand.midpoint.y)
         IN  [a EXCEPT !.zoom = r[1], !.offsetX = r[2], !.offsetY = r[3]]
    ELSE a

\* the test Math.abs(delta.x) > 0.5 || Math.abs(delta.y) > 0.5
MovedEnough(delta) == Abs(delta.x) * 2 > 1 \/ Abs(delta.y) * 2 > 1

handleTwoHandPan(a, mhs) ==
    IF MovedEnough(mhs.twoHand.panDelta)
    THEN PanIn(a, mhs.twoHand.panDelta.x, mhs.twoHand.panDelta.y)
    ELSE a

handleToolbarAction(a, action, canvasWidth, canvasHeight) ==
    CASE action = "fit" ->
            LET r == FitResult(a.notes, canvasWidth, canvasHeight)
            IN  [a EXCEPT !.zoom = r[1], !.offsetX = r[2], !.offsetY = r[3]]
      [] action = "delete" -> DeleteSelectedIn(a)
      [] action = "link" -> [a EXCEPT !.linkSourceId = NULL]
      [] action = "download" ->
            [a EXCEPT !.exportMenu =
                openExportMenu(a.exportMenu,
                    ButtonBox("download", canvasHeight).x
                        + ButtonBox("download", canvasHeight).width,
                    ButtonBox("download", canvasHeight).y)]
      [] OTHER -> a

\* showToast(message)
showToast(a, message) ==
    [a EXCEPT !.toast = [message |-> message, elapsed |-> 0]]

\* exportProjectJSON(): the file goes to the browser at once
exportProjectJSON(a) ==
    [a EXCEPT !.download = "json",
              !.project = ProjectDocument(a.notes, a.links, a.zoom, a.offsetX,
                                          a.offsetY)]

\* a PNG export that renders whatever workspace.notes holds
exportCleanPNGUnguarded(ns) == "promise"

\* exportCleanPNG() over workspace.notes: false at once, or the promise that
\* the toBlob callback settles
exportCleanPNG(ns) == IF Len(ns) = 0 THEN "false" ELSE "promise"

(***************************************************************************)
(* handleExportAction(exportType); exported records the type.  What        *)
(* follows `await exportCleanPNG()` runs after the frame when the value is *)
(* false (the toast set then is not yet expired when the next frame draws  *)
(* it, as one set inside the frame), and after the toBlob callback when it *)
(* is the promise.                                                         *)
(***************************************************************************)
handleExportAction(a, exportType) ==
    LET closed == [a EXCEPT !.exportMenu = closeExportMenu(a.exportMenu),
                            !.exported = exportType]
    IN  IF exportType = "json"
        THEN showToast(exportProjectJSON(closed), "Project saved as JSON")
        ELSE IF exportType = "png"
        THEN IF exportCleanPNG(closed.notes) = "false"
             THEN showToast(closed, "No notes to export")
             ELSE [closed EXCEPT !.pngPending = @ + 1]
        ELSE closed

\* handleRightPinch whose link branch keeps the pinned source after the
\* second pinch
handleRightPinchKeepsSource(a, rh, tool, worldCursor, k) ==
    IF ~rh.pinchJustConfirmed THEN a
    ELSE CASE tool = "select" ->
                IF k # 0
                THEN IF a.notes[k].selected
                     THEN [a EXCEPT !.editor = openEditor(a.editor, a.notes[k])]
                     ELSE SelectIn(a, a.notes[k].id)
                ELSE ClearSelectionIn(a)
           [] tool = "note" ->
                [a EXCEPT !.notes = Append(a.notes,
                              NewNote(a.noteCounter, worldCursor.x,
                                      worldCursor.y, "New Note")),
                          !.noteCounter = @ + 1]
           [] tool = "link" ->
                IF k # 0
                THEN IF a.linkSourceId = NULL
                     THEN [SelectIn(a, a.notes[k].id)
                              EXCEPT !.linkSourceId = a.notes[k].id]
                     ELSE [ClearSelectionIn(a) EXCEPT
                              !.links = LinksAfterCreate(a.links, a.linkCounter,
                                            a.linkSourceId, a.notes[k].id),
                              !.linkCounter =
                                  IF CreatesLink(a.links, a.linkSourceId,
                                                 a.notes[k].id)
                                  THEN @ + 1 ELSE @]
                ELSE [ClearSelectionIn(a) EXCEPT !.linkSourceId = NULL]
           [] tool = "delete" ->
                IF k # 0 THEN DeleteSelectedIn(SelectIn(a, a.notes[k].id))
                ELSE a
           [] OTHER -> a

\* handleRightPinch whose select branch opens the editor for any hit note
handleRightPinchEditsAny(a, rh, tool, worldCursor, k) ==
    IF ~rh.pinchJustConfirmed THEN a
    ELSE CASE tool = "select" ->
                IF k # 0
                THEN [a EXCEPT !.editor = openEditor(a.editor, a.notes[k])]
                ELSE ClearSelectionIn(a)
           [] tool = "note" ->
                [a EXCEPT !.notes = Append(a.notes,
                              NewNote(a.noteCounter, worldCursor.x,
                                      worldCursor.y, "New Note")),
                          !.noteCounter = @ + 1]
           [] tool = "link" ->
                IF k # 0
                THEN IF a.linkSourceId = NULL
                     THEN [SelectIn(a, a.notes[k].id)
                              EXCEPT !.linkSourceId = a.notes[k].id]
                     ELSE [ClearSelectionIn(a) EXCEPT
                              !.links = LinksAfterCreate(a.links, a.linkCounter,
                                            a.linkSourceId, a.notes[k].id),
                              !.linkCounter =
                                  IF CreatesLink(a.links, a.linkSourceId,
                                                 a.notes[k].id)
                                  THEN @ + 1 ELSE @,
                              !.linkSourceId = NULL]
                ELSE [ClearSelectionIn(a) EXCEPT !.linkSourceId = NULL]
           [] tool = "delete" ->
                IF k # 0 THEN DeleteSelectedIn(SelectIn(a, a.notes[k].id))
                ELSE a
           [] OTHER -> a

\* handleRightPinch(rh, tool, worldCursor, noteUnderCursor) with the hit
\* note given by its index k in a.notes, 0 for null
handleRightPinch(a, rh, tool, worldCursor, k) ==
    IF ~rh.pinchJustConfirmed THEN a
    ELSE CASE tool = "select" ->
                IF k # 0
                THEN IF a.notes[k].selected
                     THEN [a EXCEPT !.editor = openEditor(a.editor, a.notes[k])]
                     ELSE SelectIn(a, a.notes[k].id)
                ELSE ClearSelectionIn(a)
           [] tool = "note" ->
                [a EXCEPT !.notes = Append(a.notes,
                              NewNote(a.noteCounter, worldCursor.x,
                                      worldCursor.y, "New Note")),
                          !.noteCounter = @ + 1]
           [] tool = "link" ->
                IF k # 0
                THEN IF a.linkSourceId = NULL
                     THEN [SelectIn(a, a.notes[k].id)
                              EXCEPT !.linkSourceId = a.notes[k].id]
                     ELSE [ClearSelectionIn(a) EXCEPT
                              !.links = LinksAfterCreate(a.links, a.linkCounter,
                                            a.linkSourceId, a.notes[k].id),
                              !.linkCounter =
                                  IF CreatesLink(a.links, a.linkSourceId,
                                                 a.notes[k].id)
                                  THEN @ + 1 ELSE @,
                              !.linkSourceId = NULL]
                ELSE [ClearSelectionIn(a) EXCEPT !.linkSourceId = NULL]
           [] tool = "delete" ->
                IF k # 0 THEN DeleteSelectedIn(SelectIn(a, a.notes[k].id))
                ELSE a
           [] OTHER -> a

\* handleRightFist(rh, cursor, noteUnderCursor)
handleRightFist(a, rh, k) ==
    LET started == ~a.isDragging /\ ~a.isPanning
        a1 == IF started /\ k # 0 /\ ~a.notes[k].selected
              THEN SelectIn(a, a.notes[k].id) ELSE a
        dragging == a.isDragging \/ (started /\ k # 0)
        panning == a.isPanning \/ (started /\ k = 0)
    IN  IF dragging
        THEN [a1 EXCEPT !.isDragging = TRUE,
                        !.isPanning = panning,
                        !.notes = MoveAll(a1.notes, a1.selectedNoteIds,
                                          Unzoom(rh.cursorDelta.x, a.zoom),
                                          Unzoom(rh.cursorDelta.y, a.zoom))]
        ELSE [PanIn(a1, rh.cursorDelta.x, rh.cursorDelta.y)
                 EXCEPT !.isPanning = TRUE]

\* step 2 of processRightHand: the workspace interaction
RightHandWorkspace(a, rh, tool, worldCursor) ==
    LET k == hitTestNote(a.notes, worldCursor.x, worldCursor.y)
        a1 == [a EXCEPT !.hoveredNoteId =
                  IF k # 0 THEN a.notes[k].id ELSE NULL]
    IN  CASE rh.gestureMode = "point" ->
                [a1 EXCEPT !.isDragging = FALSE, !.isPanning = FALSE]
          [] rh.gestureMode = "pinch" ->
                handleRightPinch(a1, rh, tool, worldCursor, k)
          [] rh.gestureMode = "fist" -> handleRightFist(a1, rh, k)
          [] OTHER -> [a1 EXCEPT !.isDragging = FALSE, !.isPanning = FALSE]

\* step 1 of processRightHand: the toolbar interaction, and what follows it
RightHandToolbar(a, rh, tool, worldCursor, canvasWidth, canvasHeight) ==
    LET hover == checkToolbarHover(a.toolbarButtons, a.toolbarMinimized,
                                   rh.cursor, canvasHeight)
        click == checkToolbarClick(hover.buttons, a.toolbarMinimized,
                                   a.activeTool, rh.pinchJustConfirmed)
        a1 == [a EXCEPT !.toolbarButtons = click.buttons,
                        !.toolbarMinimized = click.minimized,
                        !.activeTool = click.activeTool,
                        !.clicked = click.clicked]
    IN  IF click.action # ""
        THEN handleToolbarAction(a1, click.action, canvasWidth, canvasHeight)
        ELSE IF hover.hovered # ""
        THEN [a1 EXCEPT !.hoveredNoteId = NULL]
        ELSE RightHandWorkspace(a1, rh, tool, worldCursor)

\* processRightHand whose export menu block never returns
processRightHandThroughMenu(a, rh, canvasWidth, canvasHeight) ==
    IF a.editor.isOpen THEN a
    ELSE
    LET worldCursor == screenToWorld(a.zoom, a.offsetX, a.offsetY,
                                     rh.cursor.x, rh.cursor.y)
        hovered == checkExportMenuHover(a.exportMenu, rh.cursor)
        click == checkExportMenuClick(hovered, rh.cursor, rh.pinchJustConfirmed)
        a1 == [a EXCEPT !.exportMenu = click.menu]
    IN  RightHandToolbar(IF click.action # ""
                         THEN handleExportAction(a1, click.action) ELSE a1,
                         rh, a.activeTool, worldCursor, canvasWidth, canvasHeight)

\* processRightHand without the test of the editor
processRightHandUnderEditor(a, rh, canvasWidth, canvasHeight) ==
    LET worldCursor == screenToWorld(a.zoom, a.offsetX, a.offsetY,
                                     rh.cursor.x, rh.cursor.y)
        tool == a.activeTool
        hovered == checkExportMenuHover(a.exportMenu, rh.cursor)
        click == checkExportMenuClick(hovered, rh.cursor, rh.pinchJustConfirmed)
        a1 == [a EXCEPT !.exportMenu = click.menu]
    IN  IF ~a.exportMenu.isOpen
        THEN RightHandToolbar(a, rh, tool, worldCursor, canvasWidth, canvasHeight)
        ELSE IF click.action # "" THEN handleExportAction(a1, click.action)
        ELSE IF isCursorInExportMenu(click.menu, rh.cursor) THEN a1
        ELSE IF rh.pinchJustConfirmed
        THEN [a1 EXCEPT !.exportMenu = closeExportMenu(click.menu)]
        ELSE RightHandToolbar(a1, rh, tool, worldCursor, canvasWidth, canvasHeight)

processRightHand(a, rh, canvasWidth, canvasHeight) ==
    IF a.editor.isOpen THEN a
    ELSE
    LET worldCursor == screenToWorld(a.zoom, a.offsetX, a.offsetY,
                                     rh.cursor.x, rh.cursor.y)
        tool == a.activeTool
        hovered == checkExportMenuHover(a.exportMenu, rh.cursor)
        click == checkExportMenuClick(hovered, rh.cursor, rh.pinchJustConfirmed)
        a1 == [a EXCEPT !.exportMenu = click.menu]
    IN  IF ~a.exportMenu.isOpen
        THEN RightHandToolbar(a, rh, tool, worldCursor, canvasWidth, canvasHeight)
        ELSE IF click.action # "" THEN handleExportAction(a1, click.action)
        ELSE IF isCursorInExportMenu(click.menu, rh.cursor) THEN a1
        ELSE IF rh.pinchJustConfirmed
        THEN [a1 EXCEPT !.exportMenu = closeExportMenu(click.menu)]
        ELSE RightHandToolbar(a1, rh, tool, worldCursor, canvasWidth, canvasHeight)

processLeftHand(a, lh) ==
    IF lh.gestureMode = "fist" /\ MovedEnough(lh.cursorDelta)
    THEN PanIn(a, lh.cursorDelta.x, lh.cursorDelta.y)
    ELSE a

\* processInteraction whose two-hand branches do not return
processInteractionThroughCombos(a, mhs, canvasWidth, canvasHeight) ==
    LET a1 == Once(IF a.editor.isOpen /\ mhs.mode \notin {"idle", "single_right"}
                   THEN closeEditor(a) ELSE a)
        a0 == Once(IF mhs.mode = "two_hand_zoom" THEN handleTwoHandZoom(a1, mhs)
                   ELSE IF mhs.mode = "two_hand_pan"
                   THEN handleTwoHandPan(a1, mhs)
                   ELSE a1)
        a2 == Once(IF mhs.right.detected
                   THEN processRightHand(a0, mhs.right, canvasWidth, canvasHeight)
                   ELSE a0)
    IN  IF mhs.left.detected /\ ~a2.isDragging
        THEN processLeftHand(a2, mhs.left)
        ELSE a2

processInteraction(a, mhs, canvasWidth, canvasHeight) ==
    LET a1 == Once(IF a.editor.isOpen /\ mhs.mode \notin {"idle", "single_right"}
                   THEN closeEditor(a) ELSE a)
        a2 == Once(IF mhs.right.detected
                   THEN processRightHand(a1, mhs.right, canvasWidth, canvasHeight)
                   ELSE a1)
    IN  IF mhs.mode = "two_hand_zoom"
        THEN [handleTwoHandZoom(a1, mhs) EXCEPT !.isDragging = FALSE,
                                                !.isPanning = FALSE]
        ELSE IF mhs.mode = "two_hand_pan"
        THEN [handleTwoHandPan(a1, mhs) EXCEPT !.isDragging = FALSE,
                                               !.isPanning = FALSE]
        ELSE IF mhs.left.detected /\ ~a2.isDragging
        THEN processLeftHand(a2, mhs.left)
        ELSE a2

resetInteractionState(a) ==
    [a EXCEPT !.hoveredNoteId = NULL, !.isDragging = FALSE, !.isPanning = FALSE]

\* drawToast(ctx, canvasWidth, canvasHeight): an expired toast is cleared
drawToast(a) ==
    IF a.toast.message # "" /\ a.toast.elapsed > TOAST_DURATION
    THEN [a EXCEPT !.toast = [message |-> "", elapsed |-> 0]]
    ELSE a

\* step 4 of renderLoop: the grid under the world transform, the links and
\* the notes go to the canvas as the workspace holds them at that point
drawWorld(a) ==
    [a EXCEPT !.drawn = [notes |-> a.notes, links |-> a.links,
                         zoom |-> a.zoom, offsetX |-> a.offsetX,
                         offsetY |-> a.offsetY]]

\* steps 4 to 8 of renderLoop over the engine state `after` of step 3
FrameAfter(a, after, canvasWidth, canvasHeight) ==
    drawToast(IF after.right.detected \/ after.left.detected
              THEN processInteraction(drawWorld(a), getMultiHandState(after),
                                      canvasWidth, canvasHeight)
              ELSE resetInteractionState(drawWorld(a)))

(***************************************************************************)
(* init() and what it shows: step is where the attempt stands ("camera"    *)
(* while initCamera is awaited, "tracking" while initHandTracking is,      *)
(* while getUserMedia is awaited, "video" while the promise initCamera     *)
(* returns is, "tracking" while initHandTracking is, "running" once the    *)
(* try block has completed, "failed" once handleError has run), passed the *)
(* awaits of this attempt that have resolved, scheduled whether            *)
(* requestAnimationFrame(renderLoop) has been called, seeded whether       *)
(* seedDemoNotes has, cause the step whose failure handleError was called  *)
(* for, error the message of the error it was given and shown the text it  *)
(* put on the error screen.  Texts are sequences of their parts.           *)
(***************************************************************************)
Booting ==
    [step |-> "camera", passed |-> {}, isRunning |-> FALSE,
     scheduled |-> FALSE, seeded |-> FALSE, loadingScreen |-> TRUE,
     errorScreen |-> FALSE, cause |-> "", error |-> <<>>, shown |-> <<>>,
     attempts |-> 1]

BootSteps == {"camera", "video", "tracking"}

\* init() after its try block has completed
Running ==
    [Booting EXCEPT !.step = "running", !.passed = BootSteps,
                    !.isRunning = TRUE, !.scheduled = TRUE, !.seeded = TRUE,
                    !.loadingScreen = FALSE]

\* an Error object: its name and its message
Error(name, message) == [name |-> name, message |-> message]

(***************************************************************************)
(* vision/handTracking.js: initCamera.  A failure of camera acquisition is *)
(* the stage it happens at ("getUserMedia", "video" for the video          *)
(* element's error event, "play" for play() rejecting) and the error of    *)
(* that stage.  The catch block of initCamera sees what is thrown while    *)
(* getUserMedia is awaited; the promise it then returns is not awaited     *)
(* inside the try block, and rejects with the error given to reject.       *)
(***************************************************************************)
initCameraError(failure) ==
    IF failure.stage = "getUserMedia"
    THEN IF failure.name = "NotAllowedError"
         THEN Error("Error", <<"PERMISSION_DENIED">>)
         ELSE IF failure.name = "NotFoundError"
         THEN Error("Error", <<"NO_CAMERA">>)
         ELSE Error("Error", <<"CAMERA_ERROR: ", failure.message>>)
    ELSE IF failure.stage = "video"
    THEN Error("Error", <<"Video element error">>)
    ELSE Error(failure.name, <<failure.message>>)

\* handleError(err) that leaves the loading screen as it is
handleErrorLoadingKept(b, err) ==
    [b EXCEPT !.errorScreen = TRUE,
              !.error = err.message,
              !.shown = <<"An unexpected error occurred. Please try again.">>]

\* handleError(err) in the boot state b
handleError(b, err) ==
    [b EXCEPT !.loadingScreen = FALSE,
              !.errorScreen = TRUE,
              !.error = err.message,
              !.shown =
                 IF err.message = <<"PERMISSION_DENIED">>
                 THEN <<"Camera access was denied. Please allow camera permissions.">>
                 ELSE IF err.message = <<"NO_CAMERA">>
                 THEN <<"No camera found. Please connect a webcam.">>
                 ELSE IF Len(err.message) > 0 /\ err.message[1] = "CAMERA_ERROR: "
                 THEN <<"Camera error: ">> \o Tail(err.message)
                 ELSE <<"An unexpected error occurred. Please try again.">>]

\* the module state of toolbar.js, exportMenu.js, noteEditor.js and main.js
\* once init() has created the toolbar
InitUi ==
    /\ toolbarButtons = createToolbar
    /\ toolbarMinimized = FALSE
    /\ activeTool = "select"
    /\ exportMenu = InitExportMenu
    /\ editor = InitEditor
    /\ hoveredNoteId = NULL
    /\ isDragging = FALSE
    /\ isPanning = FALSE
    /\ toast = [message |-> "", elapsed |-> 0]
    /\ latestResults = "null"
    /\ hoverLog = [btn |-> "", age |-> 0]
    /\ clickLog = [id \in Range(TOOLS) |-> CLICK_DEBOUNCE_MS]
    /\ drawn = [notes |-> <<>>, links |-> <<>>, zoom |-> ZOOM_ONE,
                offsetX |-> 0, offsetY |-> 0]
    /\ downloads = ""
    /\ project = NoProject
    /\ server = InitServer
    /\ pngPending = 0

---------------------------------------------------------------------------
(* main.js: seedDemoNotes *)

SeedTexts == <<"Welcome to VisualNote", "Right hand: Pinch to select",
               "Right hand: Fist to drag", "Both hands: Pinch to zoom">>

SeedNotes ==
    <<NewNote(0, 400, 300, SeedTexts[1]), NewNote(1, 750, 250, SeedTexts[2]),
      NewNote(2, 750, 450, SeedTexts[3]), NewNote(3, 400, 550, SeedTexts[4])>>

SeedLinks ==
    LinksAfterCreate(LinksAfterCreate(<<>>, 0, SeedNotes[1].id, SeedNotes[2].id),
                     1, SeedNotes[1].id, SeedNotes[4].id)

---------------------------------------------------------------------------
(* The workspace as a library: the exported operations of                  *)
(* workspaceState.js, noteModel.js and linkModel.js that change notes,     *)
(* links and the selection, called in any order.  Note ids passed in are   *)
(* ids that were issued (1..noteCounter), whether or not the note still    *)
(* exists.                                                                 *)

MaxNotes == 3           \* createNote is called at most MaxNotes times
MaxLinks == 2           \* createLink succeeds at most MaxLinks times
MaxShift == 1           \* a note is moved at most MaxShift steps from its origin

CreatePoints == {<<100, 60>>}
MoveStep == <<50, 20>>

IssuedIds == 1..noteCounter
IssuedLinkIds == 1..linkCounter

InitWs ==
    /\ notes = <<>>
    /\ links = <<>>
    /\ zoom = ZOOM_ONE
    /\ offsetX = 0
    /\ offsetY = 0
    /\ selectedNoteIds = <<>>
    /\ linkSourceId = NULL
    /\ noteCounter = 0
    /\ linkCounter = 0
    /\ lastOp = Op("init", 0, 0, 0)
    /\ InitGesture
    /\ InitUi
    /\ boot = Running

CreateNote ==
    /\ noteCounter < MaxNotes
    /\ \E p \in CreatePoints :
          notes' = Append(notes, NewNote(noteCounter, p[1], p[2], "New Note"))
    /\ noteCounter' = noteCounter + 1
    /\ lastOp' = Op("createNote", 0, 0, 0)
    /\ UNCHANGED outsideWs
    /\ UNCHANGED <<links, zoom, offsetX, offsetY, selectedNoteIds,
                   linkSourceId, linkCounter>>

\* lastOp.id2 is the number of links that touched the note, lastOp.ret is 1
\* when the note was in the selection
DeleteNote ==
    \E id \in IssuedIds :
        LET r == DeleteNoteResult(notes, links, selectedNoteIds, id)
        IN  /\ notes' = r[1]
            /\ links' = r[2]
            /\ selectedNoteIds' = r[3]
            /\ lastOp' = Op("deleteNote", id, Len(getLinksForNote(links, id)),
                            IF Includes(selectedNoteIds, id) THEN 1 ELSE 0)
            /\ UNCHANGED outsideWs
            /\ UNCHANGED <<zoom, offsetX, offsetY, linkSourceId,
                           noteCounter, linkCounter>>

DeleteSelectedNotes ==
    LET r == DeleteSelectedResult(notes, links, selectedNoteIds)
    IN  /\ notes' = r[1]
        /\ links' = r[2]
        /\ selectedNoteIds' = r[3]
        /\ lastOp' = Op("deleteSelectedNotes", 0, 0, 0)
        /\ UNCHANGED outsideWs
        /\ UNCHANGED <<zoom, offsetX, offsetY, linkSourceId,
                       noteCounter, linkCounter>>

\* the origin of a note is where createNote put it
WithinShift(ns) ==
    \A i \in 1..Len(ns) :
        \E p \in CreatePoints : \E k \in 0..MaxShift :
            /\ ns[i].x = p[1] - NOTE_WIDTH \div 2 + k * MoveStep[1]
            /\ ns[i].y = p[2] - NOTE_HEIGHT \div 2 + k * MoveStep[2]

MoveNote ==
    \E id \in IssuedIds : \E dir \in {-1, 1} :
        /\ notes' = NotesAfterMove(notes, id, dir * MoveStep[1], dir * MoveStep[2])
        /\ WithinShift(notes')
        /\ lastOp' = Op("moveNote", 0, 0, 0)
        /\ UNCHANGED outsideWs
        /\ UNCHANGED <<links, zoom, offsetX, offsetY, selectedNoteIds,
                       linkSourceId, noteCounter, linkCounter>>

MoveSelectedNotes ==
    \E dir \in {-1, 1} :
        /\ notes' = MoveAll(notes, selectedNoteIds,
                            dir * MoveStep[1], dir * MoveStep[2])
        /\ WithinShift(notes')
        /\ lastOp' = Op("moveSelectedNotes", 0, 0, 0)
        /\ UNCHANGED outsideWs
        /\ UNCHANGED <<links, zoom, offsetX, offsetY, selectedNoteIds,
                       linkSourceId, noteCounter, linkCounter>>

SelectNote ==
    \E id \in IssuedIds : \E addToSelection \in BOOLEAN :
        /\ selectedNoteIds' = SelectedAfterSelect(selectedNoteIds, id, addToSelection)
        /\ notes' = NotesAfterSelect(notes, selectedNoteIds, id, addToSelection)
        /\ lastOp' = Op("selectNote", 0, 0, 0)
        /\ UNCHANGED outsideWs
        /\ UNCHANGED <<links, zoom, offsetX, offsetY, linkSourceId,
                       noteCounter, linkCounter>>

DeselectNote ==
    \E id \in IssuedIds :
        /\ selectedNoteIds' = SeqFilter(selectedNoteIds,
                                 {s \in Range(selectedNoteIds) : s # id})
        /\ notes' = NotesAfterDeselect(notes, id)
        /\ lastOp' = Op("deselectNote", 0, 0, 0)
        /\ UNCHANGED outsideWs
        /\ UNCHANGED <<links, zoom, offsetX, offsetY, linkSourceId,
                       noteCounter, linkCounter>>

ClearSelection ==
    /\ selectedNoteIds' = <<>>
    /\ notes' = FlagsCleared(notes)
    /\ lastOp' = Op("clearSelection", 0, 0, 0)
    /\ UNCHANGED outsideWs
    /\ UNCHANGED <<links, zoom, offsetX, offsetY, linkSourceId,
                   noteCounter, linkCounter>>

\* lastOp.ret is the id of the created link, NULL when createLink returned null
CreateLink ==
    \E fromId \in IssuedIds : \E toId \in IssuedIds :
        /\ CreatesLink(links, fromId, toId) => linkCounter < MaxLinks
        /\ links' = LinksAfterCreate(links, linkCounter, fromId, toId)
        /\ linkCounter' = IF CreatesLink(links, fromId, toId)
                          THEN linkCounter + 1 ELSE linkCounter
        /\ lastOp' = Op("createLink", fromId, toId,
                        IF CreatesLink(links, fromId, toId)
                        THEN linkCounter + 1 ELSE NULL)
        /\ UNCHANGED outsideWs
        /\ UNCHANGED <<notes, zoom, offsetX, offsetY, selectedNoteIds,
                       linkSourceId, noteCounter>>

DeleteLink ==
    \E id \in IssuedLinkIds :
        /\ links' = LinksAfterDelete(links, id)
        /\ lastOp' = Op("deleteLink", 0, 0, 0)
        /\ UNCHANGED outsideWs
        /\ UNCHANGED <<notes, zoom, offsetX, offsetY, selectedNoteIds,
                       linkSourceId, noteCounter, linkCounter>>

DeleteLinksForNote ==
    \E id \in IssuedIds :
        /\ links' = deleteLinksForNote(links, id)
        /\ lastOp' = Op("deleteLinksForNote", 0, 0, 0)
        /\ UNCHANGED outsideWs
        /\ UNCHANGED <<notes, zoom, offsetX, offsetY, selectedNoteIds,
                       linkSourceId, noteCounter, linkCounter>>

\* notes, links and the selection: createLink, deleteLink, deleteLinksForNote
\* and deleteNote over created and selected notes
NextLinks ==
    \/ CreateNote
    \/ SelectNote
    \/ DeleteNote
    \/ CreateLink
    \/ DeleteLink
    \/ DeleteLinksForNote

SpecLinks == InitWs /\ [][NextLinks]_vars

\* notes and links alone: every operation that adds or removes a link
NextLinkOps ==
    \/ CreateNote
    \/ DeleteNote
    \/ CreateLink
    \/ DeleteLink
    \/ DeleteLinksForNote

SpecLinkOps == InitWs /\ [][NextLinkOps]_vars

\* notes and the selection: create, select, deselect, delete and move
NextSel ==
    \/ CreateNote
    \/ SelectNote
    \/ DeselectNote
    \/ ClearSelection
    \/ DeleteNote
    \/ DeleteSelectedNotes
    \/ MoveNote
    \/ MoveSelectedNotes

SpecSel == InitWs /\ [][NextSel]_vars

---------------------------------------------------------------------------
(* The view transform as a library: applyZoom, applyZoomFactor, applyPan   *)
(* and zoomToFit called in any order, over a workspace that is empty or    *)
(* holds the seeded demo notes.                                            *)

MaxOffset == 8          \* applyZoom, applyZoomFactor and applyPan move
                        \* offsetX and offsetY only within +-MaxOffset

Anchors == {<<0, 0>>, <<16, 0>>}
Factors == {400, 1100, 2500}
Pans == {<<4, 0>>, <<-4, 0>>}
Canvases == {<<1280, 720>>, <<200, 100>>, <<2400, 2000>>}

\* <<notes, links, noteCounter, linkCounter>>
Layouts ==
    {<<<<>>, <<>>, 0, 0>>,
     <<SeedNotes, SeedLinks, 4, 2>>}

InOffsetBox(ox, oy) ==
    \/ (ox = offsetX /\ oy = offsetY)
    \/ (Abs(ox) <= MaxOffset /\ Abs(oy) <= MaxOffset)

InitZoom ==
    /\ \E l \in Layouts :
          /\ notes = l[1]
          /\ links = l[2]
          /\ noteCounter = l[3]
          /\ linkCounter = l[4]
    /\ zoom = ZOOM_ONE
    /\ offsetX = 0
    /\ offsetY = 0
    /\ selectedNoteIds = <<>>
    /\ linkSourceId = NULL
    /\ lastOp = Op("init", 0, 0, 0)
    /\ InitGesture
    /\ InitUi
    /\ boot = Running

ApplyZoom ==
    \E delta \in {-1, 1} : \E c \in Anchors :
        LET r == ZoomResult(zoom, offsetX, offsetY, delta, c[1], c[2])
        IN  /\ InOffsetBox(r[2], r[3])
            /\ zoom' = r[1]
            /\ offsetX' = r[2]
            /\ offsetY' = r[3]
            /\ lastOp' = Op("applyZoom", 0, 0, 0)
            /\ UNCHANGED outsideWs
            /\ UNCHANGED <<notes, links, selectedNoteIds, linkSourceId,
                           noteCounter, linkCounter>>

ApplyZoomFactor ==
    \E factor \in Factors : \E c \in Anchors :
        LET r == ZoomFactorResult(zoom, offsetX, offsetY, factor, c[1], c[2])
        IN  /\ InOffsetBox(r[2], r[3])
            /\ zoom' = r[1]
            /\ offsetX' = r[2]
            /\ offsetY' = r[3]
            /\ lastOp' = Op("applyZoomFactor", 0, 0, 0)
            /\ UNCHANGED outsideWs
            /\ UNCHANGED <<notes, links, selectedNoteIds, linkSourceId,
                           noteCounter, linkCounter>>

ApplyPan ==
    \E d \in Pans :
        LET r == PanResult(zoom, offsetX, offsetY, d[1], d[2])
        IN  /\ InOffsetBox(r[1], r[2])
            /\ offsetX' = r[1]
            /\ offsetY' = r[2]
            /\ lastOp' = Op("applyPan", 0, 0, 0)
            /\ UNCHANGED outsideWs
            /\ UNCHANGED <<notes, links, zoom, selectedNoteIds, linkSourceId,
                           noteCounter, linkCounter>>

ZoomToFit ==
    \E cv \in Canvases :
        LET r == FitResult(notes, cv[1], cv[2])
        IN  /\ zoom' = r[1]
            /\ offsetX' = r[2]
            /\ offsetY' = r[3]
            /\ lastOp' = Op("zoomToFit", 0, 0, 0)
            /\ UNCHANGED outsideWs
            /\ UNCHANGED <<notes, links, selectedNoteIds, linkSourceId,
                           noteCounter, linkCounter>>

NextZoom ==
    \/ ApplyZoom
    \/ ApplyZoomFactor
    \/ ApplyPan
    \/ ZoomToFit

SpecZoom == InitZoom /\ [][NextZoom]_vars

---------------------------------------------------------------------------
(* The gesture engine as a library: processAllHands called frame after     *)
(* frame with results the tracker can deliver, and resetAllHands.          *)

CANVAS_WIDTH == 1280    \* canvas.width, the window's inner width
CANVAS_HEIGHT == 720    \* canvas.height, the window's inner height

Hand(label, lm) == [label |-> label, lm |-> lm]

\* thumb-index distances around PINCH_THRESHOLD and RELEASE_THRESHOLD
Tids == {PINCH_THRESHOLD - 10, PINCH_THRESHOLD, RELEASE_THRESHOLD,
         RELEASE_THRESHOLD + 10}

\* finger postures <<index, middle, ring, pinky>> as tip.y - mcp.y
FingerPoses ==
    {<<-30, -30, -30, -30>>,    \* all extended
     <<20, 20, 20, 20>>,        \* all curled
     <<-30, -30, 0, 20>>,       \* index extended, rest mixed
     <<-20, 10, 10, 10>>}       \* on the margins: neither extended nor curled

OneHandShapes ==
    {Shape(t, f[1], f[2], f[3], f[4]) : t \in Tids, f \in FingerPoses}

\* index finger tips, <<tipX, tipY>>: a point a few pixels into the canvas
OneHandTips == {<<CANVAS_WIDTH - 5, 0>>}

\* the time between two frames, in ms
FrameIntervals == {60, 150}

\* the results of a frame in which the tracker sees at most one hand
OneHandResults ==
    {<<>>}
    \cup {<<Hand(label, Landmarks(sh, t[1], t[2]))>> :
            label \in {"Left", "Right", ""}, sh \in OneHandShapes,
            t \in OneHandTips}
    \cup {<<Hand(label, SHORT)>> : label \in {"Left", "Right"}}

ProcessOneHandFrame ==
    \E results \in OneHandResults, dt \in FrameIntervals :
        /\ processAllHands(results, CANVAS_WIDTH, CANVAS_HEIGHT, dt)
        /\ lastOp' = Op("processAllHands", dt, Len(results), 0)
        /\ UNCHANGED <<wsVars, uiVars>>

ResetAllHands ==
    /\ resetAllHands
    /\ lastOp' = Op("resetAllHands", 0, 0, 0)
    /\ UNCHANGED <<wsVars, uiVars>>

InitEngine ==
    /\ notes = <<>>
    /\ links = <<>>
    /\ zoom = ZOOM_ONE
    /\ offsetX = 0
    /\ offsetY = 0
    /\ selectedNoteIds = <<>>
    /\ linkSourceId = NULL
    /\ noteCounter = 0
    /\ linkCounter = 0
    /\ lastOp = Op("init", 0, 0, 0)
    /\ InitGesture
    /\ InitUi
    /\ boot = Running

NextOneHand ==
    \/ ProcessOneHandFrame
    \/ ResetAllHands

SpecOneHand == InitEngine /\ [][NextOneHand]_vars

\* poses of a frame in which the tracker sees both hands
OPEN_HAND == Shape(RELEASE_THRESHOLD + 10, -30, -30, -30, -30)
PINCH_HAND == Shape(PINCH_THRESHOLD - 10, -30, -30, -30, -30)
TwoHandShapes == {OPEN_HAND, PINCH_HAND}

\* the right hand's index finger tips
RightTips == {<<CANVAS_WIDTH, 0>>}
\* the left hand's index finger tips
LeftTips == {<<CANVAS_WIDTH - 20, 0>>}

TwoHandIntervals == {150}

TwoHandResults ==
    {<<Hand("Left", Landmarks(rs, rt[1], rt[2])),
       Hand("Right", Landmarks(ls, lt[1], lt[2]))>> :
        rs \in TwoHandShapes, rt \in RightTips,
        ls \in TwoHandShapes, lt \in LeftTips}

ProcessTwoHandFrame ==
    \E results \in TwoHandResults, dt \in TwoHandIntervals :
        /\ processAllHands(results, CANVAS_WIDTH, CANVAS_HEIGHT, dt)
        /\ lastOp' = Op("processAllHands", dt, Len(results), 0)
        /\ UNCHANGED <<wsVars, uiVars>>

\* a frame in which one of the two hands has left the image
ProcessLoneHandFrame ==
    \E label \in {"Left", "Right"}, sh \in TwoHandShapes,
       dt \in TwoHandIntervals :
        /\ processAllHands(<<Hand(label, Landmarks(sh, CANVAS_WIDTH, 0))>>,
                           CANVAS_WIDTH, CANVAS_HEIGHT, dt)
        /\ lastOp' = Op("processAllHands", dt, 1, 0)
        /\ UNCHANGED <<wsVars, uiVars>>

NextTwoHand ==
    \/ ProcessTwoHandFrame
    \/ ProcessLoneHandFrame

SpecTwoHand == InitEngine /\ [][NextTwoHand]_vars

---------------------------------------------------------------------------
(* main.js: the render loop of the running application                     *)

\* the time between two frames of the render loop, in ms
AppIntervals == {100}

(***************************************************************************)
(* The record of where the right hand's cursor is, kept from the cursor    *)
(* and the frame times alone: btn is the toolbar button the cursor is      *)
(* inside ("" for none) and age the time it has been inside it without a   *)
(* frame that saw it elsewhere, counted up to HOVER_DELAY_MS.  A frame     *)
(* without the right hand sees the cursor nowhere and lets the time run.   *)
(***************************************************************************)
HoverLogAfter(log, rh, dt, canvasHeight) ==
    IF ~rh.detected
    THEN [log EXCEPT !.age = IF log.btn = "" THEN 0
                              ELSE Min(@ + dt, HOVER_DELAY_MS)]
    ELSE LET inside == {id \in Range(TOOLS) :
                          isInsideButton(rh.smoothCursor,
                                         ButtonBox(id, canvasHeight))}
             b == IF inside = {} THEN "" ELSE CHOOSE id \in inside : TRUE
         IN  [btn |-> b,
              age |-> IF b # "" /\ b = log.btn
                      THEN Min(log.age + dt, HOVER_DELAY_MS) ELSE 0]

(***************************************************************************)
(* The record of the clicks checkToolbarClick has registered: per button   *)
(* the time since the last frame that registered a click on it, counted up *)
(* to CLICK_DEBOUNCE_MS, where it starts.                                  *)
(***************************************************************************)
ClickLogAfter(log, dt, clicked) ==
    [id \in DOMAIN log |->
        IF id = clicked THEN 0 ELSE Min(log[id] + dt, CLICK_DEBOUNCE_MS)]

\* the application state a frame leaves
AppBecomes(a) ==
    /\ notes' = a.notes
    /\ links' = a.links
    /\ zoom' = a.zoom
    /\ offsetX' = a.offsetX
    /\ offsetY' = a.offsetY
    /\ selectedNoteIds' = a.selectedNoteIds
    /\ linkSourceId' = a.linkSourceId
    /\ noteCounter' = a.noteCounter
    /\ linkCounter' = a.linkCounter
    /\ toolbarButtons' = a.toolbarButtons
    /\ toolbarMinimized' = a.toolbarMinimized
    /\ activeTool' = a.activeTool
    /\ exportMenu' = a.exportMenu
    /\ editor' = a.editor
    /\ hoveredNoteId' = a.hoveredNoteId
    /\ isDragging' = a.isDragging
    /\ isPanning' = a.isPanning
    /\ toast' = a.toast
    /\ drawn' = a.drawn
    /\ pngPending' = a.pngPending
    /\ downloads' = a.download
    /\ project' = a.project

\* renderLoop(timestamp), dt ms after the previous frame, when the tracker
\* has delivered results (onHandResults) since
renderLoop(results, dt) ==
    \E after \in {HandsAfter(results, CANVAS_WIDTH, CANVAS_HEIGHT, dt)} :
    \E a \in {FrameAfter(AppAt(dt), after, CANVAS_WIDTH, CANVAS_HEIGHT)} :
        /\ boot.isRunning
        /\ EngineBecomes(after, results, dt)
        /\ AppBecomes(a)
        /\ latestResults' = "results"
        /\ hoverLog' = HoverLogAfter(hoverLog, after.right, dt, CANVAS_HEIGHT)
        /\ clickLog' = ClickLogAfter(clickLog, dt, a.clicked)
        /\ UNCHANGED <<boot, server>>
        /\ lastOp' = Op("renderLoop", dt,
                        IF a.clicked = "" THEN 0 ELSE ToolIndex(a.clicked),
                        IF a.exported = "" THEN 0 ELSE ItemIndex(a.exported))

\* renderLoop(timestamp) before the tracker has delivered any results
RenderLoopWithoutResults ==
    /\ latestResults = "null"
    /\ boot.isRunning
    /\ \E dt \in AppIntervals :
          /\ resetAllHands
          /\ AppBecomes(drawToast(resetInteractionState(drawWorld(AppAt(dt)))))
          /\ clickLog' = ClickLogAfter(clickLog, dt, "")
          /\ hoverLog' = HoverLogAfter(hoverLog, resetOneHand(rightHand), dt,
                                       CANVAS_HEIGHT)
          /\ lastOp' = Op("renderLoop", dt, 0, 0)
    /\ UNCHANGED <<latestResults, boot, server>>

\* the keydown handler of the editor's textarea, for the Escape key
EditorEscape ==
    /\ editor.isOpen
    /\ AppBecomes(closeEditor(AppAt(0)))
    /\ lastOp' = Op("keydown", 0, 0, 0)
    /\ UNCHANGED <<geVars, latestResults, hoverLog, clickLog, boot, server>>

\* the state in which init() starts the render loop
InitApp ==
    /\ notes = SeedNotes
    /\ links = SeedLinks
    /\ zoom = ZOOM_ONE
    /\ offsetX = 0
    /\ offsetY = 0
    /\ selectedNoteIds = <<>>
    /\ linkSourceId = NULL
    /\ noteCounter = Len(SeedNotes)
    /\ linkCounter = Len(SeedLinks)
    /\ lastOp = Op("init", 0, 0, 0)
    /\ InitGesture
    /\ InitUi
    /\ boot = Running

\* the index finger tip, in canvas pixels, that moves a smoothed cursor from
\* p to t in one frame
RawFor(p, t) ==
    Point(p.x + ((t.x - p.x) * SMOOTHING_DEN) \div SMOOTHING_NUM,
          p.y + ((t.y - p.y) * SMOOTHING_DEN) \div SMOOTHING_NUM)

\* raw is a point of the camera image and takes the cursor from p to t
Reaches(p, raw, t) ==
    /\ raw.x \in 0..CANVAS_WIDTH
    /\ raw.y \in 0..CANVAS_HEIGHT
    /\ smooth(raw.x, p.x) = t.x
    /\ smooth(raw.y, p.y) = t.y

\* the landmarks of the user's right hand in pose sh with the index finger
\* tip at canvas point raw; the tracker calls this hand "Left"
RightHandAt(sh, raw) ==
    Hand("Left", Landmarks(sh, CANVAS_WIDTH - raw.x, raw.y))

\* the user's left hand, open, at the corner of the image
LeftHandOpen == Hand("Right", Landmarks(OPEN_HAND, CANVAS_WIDTH, 0))

(***************************************************************************)
(* One right hand that points and pinches its way between the link         *)
(* button, the delete button, two seeded notes and the empty canvas.       *)
(***************************************************************************)
LINK_BUTTON_POINT == Point(70, 280)
DELETE_BUTTON_POINT == Point(70, 340)
NOTE_1_POINT == Point(310, 280)
NOTE_2_POINT == Point(660, 280)

AppPoints ==
    {LINK_BUTTON_POINT, DELETE_BUTTON_POINT, Point(112, 280), Point(186, 280),
     NOTE_1_POINT, NOTE_2_POINT}

AppShapes == {OPEN_HAND, PINCH_HAND}

RightHandFrame ==
    \E t \in AppPoints, sh \in AppShapes, dt \in AppIntervals :
        LET raw == RawFor(rightHand.smoothCursor, t)
        IN  /\ Reaches(rightHand.smoothCursor, raw, t)
            /\ renderLoop(<<RightHandAt(sh, raw)>>, dt)

NoHandFrame ==
    \E dt \in AppIntervals : renderLoop(<<>>, dt)

NextApp ==
    \/ RenderLoopWithoutResults
    \/ RightHandFrame
    \/ EditorEscape

SpecApp == InitApp /\ [][NextApp]_vars

(***************************************************************************)
(* The same session, in which the hand may also leave the image.  Every    *)
(* frame ends with requestAnimationFrame(renderLoop), so frames keep       *)
(* coming; the behaviours considered are those in which, again and again,  *)
(* a frame finds no hand.                                                  *)
(***************************************************************************)
NextSession ==
    \/ RenderLoopWithoutResults
    \/ RightHandFrame
    \/ EditorEscape
    \/ NoHandFrame

SpecSession == InitApp /\ [][NextSession]_vars /\ WF_vars(NoHandFrame)

(***************************************************************************)
(* A right hand that moves between the link button and the empty canvas,   *)
(* open or pinching, while the left hand comes and goes, open.             *)
(***************************************************************************)
HoverPoints == {LINK_BUTTON_POINT, Point(112, 280)}

\* two-hand panning is followed while the view stays this close to its origin
MaxPan == 21

BothHandsFrame ==
    \E t \in HoverPoints, sh \in AppShapes, dt \in AppIntervals :
        LET raw == RawFor(rightHand.smoothCursor, t)
        IN  /\ Reaches(rightHand.smoothCursor, raw, t)
            /\ renderLoop(<<RightHandAt(sh, raw), LeftHandOpen>>, dt)
            /\ Abs(offsetX') <= MaxPan
            /\ Abs(offsetY') <= MaxPan

LoneRightHandFrame ==
    \E t \in HoverPoints, sh \in AppShapes, dt \in AppIntervals :
        LET raw == RawFor(rightHand.smoothCursor, t)
        IN  /\ Reaches(rightHand.smoothCursor, raw, t)
            /\ renderLoop(<<RightHandAt(sh, raw)>>, dt)

NextHover ==
    \/ RenderLoopWithoutResults
    \/ BothHandsFrame
    \/ LoneRightHandFrame
    \/ NoHandFrame

SpecHover == InitApp /\ [][NextHover]_vars

---------------------------------------------------------------------------
(* ui/toolbar.js on its own: checkToolbarHover and checkToolbarClick as    *)
(* processRightHand calls them in one frame, for any cursor and any        *)
(* pinchJustConfirmed                                                      *)

ToolbarIntervals == {100, 250}

TOGGLE_BUTTON_POINT == Point(70, 590)
OFF_TOOLBAR_POINT == Point(400, 300)

ToolbarPoints == {LINK_BUTTON_POINT, DELETE_BUTTON_POINT, TOGGLE_BUTTON_POINT,
                  OFF_TOOLBAR_POINT}

\* lastOp after it: the frame interval, the index in TOOLS of the button
\* whose click was registered (0 for none) and pinchJustConfirmed as 1 or 0
ToolbarFrame ==
    \E dt \in ToolbarIntervals, cursor \in ToolbarPoints,
       pinchJustConfirmed \in BOOLEAN :
    \E hover \in {checkToolbarHover(ButtonsLater(toolbarButtons, dt),
                                    toolbarMinimized, cursor, CANVAS_HEIGHT)} :
    \E click \in {checkToolbarClick(hover.buttons, toolbarMinimized,
                                    activeTool, pinchJustConfirmed)} :
        /\ toolbarButtons' = click.buttons
        /\ toolbarMinimized' = click.minimized
        /\ activeTool' = click.activeTool
        /\ hoverLog' = HoverLogAfter(hoverLog,
                                     [detected |-> TRUE, smoothCursor |-> cursor],
                                     dt, CANVAS_HEIGHT)
        /\ clickLog' = ClickLogAfter(clickLog, dt, click.clicked)
        /\ lastOp' = Op("checkToolbarClick", dt,
                        IF click.clicked = "" THEN 0
                        ELSE ToolIndex(click.clicked),
                        IF pinchJustConfirmed THEN 1 ELSE 0)
        /\ UNCHANGED <<wsVars, geVars, exportMenu, editor, hoveredNoteId,
                       isDragging, isPanning, toast, latestResults, drawn,
                       downloads, project, boot, pngPending, server>>

NextToolbar == ToolbarFrame

SpecToolbar == InitApp /\ [][NextToolbar]_vars

---------------------------------------------------------------------------
(* main.js: init(), its failures and the retry button                      *)

MaxAttempts == 3        \* init() is called at most MaxAttempts times

\* the ways camera acquisition fails
CameraFailures ==
    {[stage |-> "getUserMedia", name |-> n, message |-> m] :
        n \in {"NotAllowedError", "NotFoundError", "NotReadableError",
               "OverconstrainedError"},
        m \in {"Permission denied", "Could not start video source"}}
    \cup {[stage |-> "video", name |-> "Error",
           message |-> "Video element error"]}
    \cup {[stage |-> "play", name |-> n, message |-> "play() failed"] :
             n \in {"NotAllowedError", "AbortError"}}

\* the errors hands.initialize() and camera.start() reject with
TrackingErrors ==
    {Error("Error", <<"Failed to fetch">>),
     Error("NotReadableError", <<"Could not start video source">>)}

\* the catch block of init(), entered from the await of step cause
initCatch(b, cause, err) ==
    [handleError(b, err) EXCEPT !.step = "failed", !.cause = cause]

\* what a step of init() that touches only the bootstrap leaves alone
BootOnly ==
    UNCHANGED <<wsVars, geVars, toolbarButtons, toolbarMinimized, activeTool,
                exportMenu, editor, hoveredNoteId, isDragging, isPanning,
                toast, latestResults, hoverLog, clickLog, drawn, downloads,
                project, pngPending, server>>

\* getUserMedia resolves with a stream: initCamera returns its promise
GetUserMediaResolves ==
    /\ boot.step = "camera"
    /\ boot' = [boot EXCEPT !.step = "video", !.passed = @ \cup {"camera"}]
    /\ lastOp' = Op("getUserMedia", 0, 0, 1)
    /\ BootOnly

GetUserMediaRejects ==
    /\ boot.step = "camera"
    /\ \E f \in CameraFailures :
          /\ f.stage = "getUserMedia"
          /\ boot' = initCatch(boot, f.stage, initCameraError(f))
    /\ lastOp' = Op("getUserMedia", 0, 0, 0)
    /\ BootOnly

\* onloadedmetadata, then play() resolves: resolve(stream)
PlayResolves ==
    /\ boot.step = "video"
    /\ boot' = [boot EXCEPT !.step = "tracking", !.passed = @ \cup {"video"}]
    /\ lastOp' = Op("play", 0, 0, 1)
    /\ BootOnly

\* the video element's error event, or play() rejecting
VideoFails ==
    /\ boot.step = "video"
    /\ \E f \in CameraFailures :
          /\ f.stage \in {"video", "play"}
          /\ boot' = initCatch(boot, f.stage, initCameraError(f))
    /\ lastOp' = Op("play", 0, 0, 0)
    /\ BootOnly

\* initHandTracking resolves: the rest of the try block of init() runs
HandTrackingResolves ==
    /\ boot.step = "tracking"
    /\ boot' = [boot EXCEPT !.step = "running", !.passed = @ \cup {"tracking"},
                            !.seeded = TRUE, !.loadingScreen = FALSE,
                            !.isRunning = TRUE, !.scheduled = TRUE]
    /\ toolbarButtons' = createToolbar
    /\ notes' = SeedNotes
    /\ links' = SeedLinks
    /\ noteCounter' = Len(SeedNotes)
    /\ linkCounter' = Len(SeedLinks)
    /\ lastOp' = Op("initHandTracking", 0, 0, 1)
    /\ UNCHANGED <<zoom, offsetX, offsetY, selectedNoteIds, linkSourceId,
                   geVars, toolbarMinimized, activeTool, exportMenu, editor,
                   hoveredNoteId, isDragging, isPanning, toast, latestResults,
                   hoverLog, clickLog, drawn, downloads, project,
                   pngPending, server>>

HandTrackingRejects ==
    /\ boot.step = "tracking"
    /\ \E err \in TrackingErrors :
          boot' = initCatch(boot, "tracking", err)
    /\ lastOp' = Op("initHandTracking", 0, 0, 0)
    /\ BootOnly

\* a retry button that can be clicked whatever the page shows
RetryClickAnytime ==
    /\ boot.attempts < MaxAttempts
    /\ boot' = [boot EXCEPT !.errorScreen = FALSE, !.loadingScreen = TRUE,
                            !.step = "camera", !.passed = {},
                            !.attempts = @ + 1]
    /\ lastOp' = Op("retry", 0, 0, 0)
    /\ BootOnly

\* the click handler of the retry button, which the error screen shows
RetryClick ==
    /\ boot.errorScreen
    /\ boot.attempts < MaxAttempts
    /\ boot' = [boot EXCEPT !.errorScreen = FALSE, !.loadingScreen = TRUE,
                            !.step = "camera", !.passed = {},
                            !.attempts = @ + 1]
    /\ lastOp' = Op("retry", 0, 0, 0)
    /\ BootOnly

\* a frame with the right hand open over the canvas or over note 1
OpenHandFrame ==
    \E t \in {OFF_TOOLBAR_POINT, NOTE_1_POINT}, dt \in AppIntervals :
        LET raw == RawFor(rightHand.smoothCursor, t)
        IN  /\ Reaches(rightHand.smoothCursor, raw, t)
            /\ renderLoop(<<RightHandAt(OPEN_HAND, raw)>>, dt)

\* the page as its scripts leave it: init() has been called
InitBoot ==
    /\ notes = <<>>
    /\ links = <<>>
    /\ zoom = ZOOM_ONE
    /\ offsetX = 0
    /\ offsetY = 0
    /\ selectedNoteIds = <<>>
    /\ linkSourceId = NULL
    /\ noteCounter = 0
    /\ linkCounter = 0
    /\ lastOp = Op("init", 0, 0, 0)
    /\ InitGesture
    /\ InitUi
    /\ boot = Booting

NextBoot ==
    \/ GetUserMediaResolves
    \/ GetUserMediaRejects
    \/ PlayResolves
    \/ VideoFails
    \/ HandTrackingResolves
    \/ HandTrackingRejects
    \/ RetryClick
    \/ RenderLoopWithoutResults
    \/ OpenHandFrame

SpecBoot == InitBoot /\ [][NextBoot]_vars

---------------------------------------------------------------------------
(* The exports in the running application: a right hand between the empty  *)
(* canvas, the download button and the PNG item of the export menu, over   *)
(* the seeded workspace or over the workspace after the user has deleted   *)
(* every note.                                                             *)

MaxPending == 1         \* PNG exports waiting for their toBlob callback

ExportIntervals == {250}

DOWNLOAD_BUTTON_POINT == Point(90, 430)
JSON_ITEM_POINT == Point(150, 430)
PNG_ITEM_POINT == Point(150, 470)
EMPTY_CANVAS_POINT == Point(186, 280)
BESIDE_TOOLBAR_POINT == Point(150, 280)

ExportPoints == {DOWNLOAD_BUTTON_POINT, PNG_ITEM_POINT, BESIDE_TOOLBAR_POINT}

ExportRightHandFrame ==
    \E t \in ExportPoints, sh \in AppShapes, dt \in ExportIntervals :
        LET raw == RawFor(rightHand.smoothCursor, t)
        IN  /\ Reaches(rightHand.smoothCursor, raw, t)
            /\ renderLoop(<<RightHandAt(sh, raw)>>, dt)
            /\ pngPending' <= MaxPending

\* the callback exportCleanPNG gave to offscreen.toBlob runs, between two
\* frames, and handleExportAction resumes after its await
ToBlobCallback ==
    /\ pngPending > 0
    /\ pngPending' = pngPending - 1
    /\ \E blob \in BOOLEAN :
          /\ downloads' = IF blob THEN "png" ELSE ""
          /\ toast' = [message |-> IF blob THEN "Exported as PNG"
                                   ELSE "No notes to export",
                       elapsed |-> 0]
          /\ lastOp' = Op("toBlob", 0, 0, IF blob THEN 1 ELSE 0)
    /\ UNCHANGED <<wsVars, geVars, toolbarButtons, toolbarMinimized,
                   activeTool, exportMenu, editor, hoveredNoteId, isDragging,
                   isPanning, latestResults, hoverLog, clickLog, drawn, boot,
                   project, server>>

InitExport ==
    /\ \E l \in Layouts :
          /\ notes = l[1]
          /\ links = l[2]
          /\ noteCounter = l[3]
          /\ linkCounter = l[4]
    /\ zoom = ZOOM_ONE
    /\ offsetX = 0
    /\ offsetY = 0
    /\ selectedNoteIds = <<>>
    /\ linkSourceId = NULL
    /\ lastOp = Op("init", 0, 0, 0)
    /\ InitGesture
    /\ InitUi
    /\ boot = Running

NextExport ==
    \/ ExportRightHandFrame
    \/ ToBlobCallback

SpecExport == InitExport /\ [][NextExport]_vars

(***************************************************************************)
(* The export menu under both hands: a right hand between the empty        *)
(* canvas, note 1, the download button and the menu's JSON item, alone or, *)
(* staying where it is, with a pinching left hand.                         *)
(***************************************************************************)
MenuPoints == {DOWNLOAD_BUTTON_POINT, JSON_ITEM_POINT, EMPTY_CANVAS_POINT,
               NOTE_1_POINT}

\* the user's left hand, pinching, at the corner of the image
LeftHandPinch == Hand("Right", Landmarks(PINCH_HAND, CANVAS_WIDTH, 0))

MenuRightHandFrame ==
    \E t \in MenuPoints, sh \in AppShapes, dt \in ExportIntervals :
        LET raw == RawFor(rightHand.smoothCursor, t)
        IN  /\ Reaches(rightHand.smoothCursor, raw, t)
            /\ renderLoop(<<RightHandAt(sh, raw)>>, dt)

MenuBothHandsFrame ==
    \E sh \in AppShapes, dt \in ExportIntervals :
        LET t == rightHand.smoothCursor
            raw == RawFor(t, t)
        IN  /\ rightHand.detected
            /\ Reaches(t, raw, t)
            /\ renderLoop(<<RightHandAt(sh, raw), LeftHandPinch>>, dt)

NextMenu ==
    \/ MenuRightHandFrame
    \/ MenuBothHandsFrame

SpecMenu == InitApp /\ [][NextMenu]_vars

---------------------------------------------------------------------------
(***************************************************************************)
(* ui/noteEditor.js with its callers: the editor is opened on a note, as   *)
(* handleRightPinch opens it, the user types, and the editor is closed by  *)
(* a key, by a mouse button or by a frame of the render loop that sees the *)
(* left hand.  deleteNote, which noteModel.js exports, may remove the note *)
(* that is being edited.                                                   *)
(***************************************************************************)

\* what the user leaves in the textarea
TypedTexts == {"", " \n", " idea "}

\* the keys pressed in the textarea
EditorKeys == <<"Escape", "Ctrl+Enter", "Meta+Enter", "Enter", "a">>

KeyIndex(key) == CHOOSE i \in 1..Len(EditorKeys) : EditorKeys[i] = key

\* the editor is opened on the first MaxEdited notes of the seed
MaxEdited == 2

\* handleRightPinch: openEditor(noteUnderCursor)
OpenEditor ==
    /\ ~editor.isOpen
    /\ \E i \in 1..Len(notes) :
          /\ notes[i].id <= MaxEdited
          /\ editor' = openEditor(editor, notes[i])
          /\ lastOp' = Op("openEditor", notes[i].id, 0, 0)
    /\ UNCHANGED <<wsVars, geVars, toolbarButtons, toolbarMinimized,
                   activeTool, exportMenu, hoveredNoteId, isDragging,
                   isPanning, toast, latestResults, hoverLog, clickLog, drawn,
                   downloads, project, boot, pngPending, server>>

\* the user edits the text of the open editor
TextareaInput ==
    /\ editor.isOpen
    /\ \E v \in TypedTexts : editor' = [editor EXCEPT !.value = v]
    /\ lastOp' = Op("input", 0, 0, 0)
    /\ UNCHANGED <<wsVars, geVars, toolbarButtons, toolbarMinimized,
                   activeTool, exportMenu, hoveredNoteId, isDragging,
                   isPanning, toast, latestResults, hoverLog, clickLog, drawn,
                   downloads, project, boot, pngPending, server>>

\* the keydown listener of the textarea
TextareaKeydown ==
    \E key \in Range(EditorKeys) :
        /\ AppBecomes(IF key \in {"Escape", "Ctrl+Enter", "Meta+Enter"}
                      THEN closeEditor(AppAt(0))
                      ELSE AppAt(0))
        /\ lastOp' = Op("keydown", KeyIndex(key), 0, 0)
        /\ UNCHANGED <<geVars, latestResults, hoverLog, clickLog, boot, server>>

\* the mousedown listener of the document; inEditor is
\* editorEl.contains(e.target)
DocumentMousedown ==
    \E inEditor \in BOOLEAN :
        /\ AppBecomes(IF editor.isOpen /\ ~inEditor
                      THEN closeEditor(AppAt(0))
                      ELSE AppAt(0))
        /\ lastOp' = Op("mousedown", IF inEditor THEN 1 ELSE 0, 0, 0)
        /\ UNCHANGED <<geVars, latestResults, hoverLog, clickLog, boot, server>>

\* deleteNote(id) on the note that is being edited
DeleteEditedNote ==
    /\ editor.isOpen
    /\ DeleteNote
    /\ lastOp'.id = editor.editingNoteId

\* a frame that sees the left hand alone, open
LeftHandFrame ==
    \E dt \in AppIntervals : renderLoop(<<LeftHandOpen>>, dt)

NextEditor ==
    \/ OpenEditor
    \/ TextareaInput
    \/ TextareaKeydown
    \/ DocumentMousedown
    \/ DeleteEditedNote
    \/ LeftHandFrame
    \/ NoHandFrame

SpecEditor == InitApp /\ [][NextEditor]_vars

---------------------------------------------------------------------------
(***************************************************************************)
(* exportProjectJSON over the workspaces the library operations build:     *)
(* notes are created and selected, links created, the view panned, and the *)
(* workspace is exported.                                                  *)
(***************************************************************************)

\* exportProjectJSON(); lastOp.ret is 1 for the returned true
ExportProjectJSON ==
    \E a \in {exportProjectJSON(AppAt(0))} :
        /\ AppBecomes(a)
        /\ lastOp' = Op("exportProjectJSON", 0, 0, 1)
        /\ UNCHANGED <<geVars, latestResults, hoverLog, clickLog, boot, server>>

\* the workspace is built before it is exported
NextJson ==
    \/ /\ project = NoProject
       /\ \/ CreateNote
          \/ SelectNote
          \/ CreateLink
          \/ ApplyPan
    \/ ExportProjectJSON

SpecJson == InitWs /\ [][NextJson]_vars

---------------------------------------------------------------------------
(***************************************************************************)
(* server.js on its own: requests arrive, each starts an fs.readFile whose *)
(* callback answers it later, and meanwhile files under ROOT may be        *)
(* removed, restored or made unreadable.                                   *)
(***************************************************************************)

MaxReading == 2         \* at most MaxReading requests are being read at once

RequestUrls ==
    {ROOT_URL, <<"/", "?", "v=1">>, INDEX_HTML, <<"/", "index.html", "?", "v=1">>,
     MAIN_JS, <<"/", "missing.js">>}

FileKinds == {"file", "absent", "unreadable"}

ServerOnly ==
    UNCHANGED <<wsVars, geVars, toolbarButtons, toolbarMinimized, activeTool,
                exportMenu, editor, hoveredNoteId, isDragging, isPanning,
                toast, latestResults, hoverLog, clickLog, drawn, downloads,
                project, boot, pngPending>>

\* the request handler, up to its call of fs.readFile
ServerRequest ==
    /\ Len(server.reading) < MaxReading
    /\ \E url \in RequestUrls :
          server' = [server EXCEPT !.reading =
                        Append(@, [url |-> url, fullPath |-> filePath(url)])]
    /\ lastOp' = Op("request", 0, 0, 0)
    /\ ServerOnly

\* the callback of fs.readFile for one of the requests being read
ReadFileCallback ==
    /\ \E i \in 1..Len(server.reading) :
          LET rq == server.reading[i]
              code == readFileError(StatOf(server.files, rq.fullPath))
          IN  /\ server' =
                    [server EXCEPT
                       !.reading = SubSeq(@, 1, i - 1)
                                     \o SubSeq(@, i + 1, Len(@)),
                       !.response = [url |-> rq.url, fullPath |-> rq.fullPath,
                                     error |-> code,
                                     status |-> writeHead(code)]]
              /\ lastOp' = Op("readFile", 0, 0, writeHead(code))
    /\ ServerOnly

\* a file under ROOT is removed, restored or made unreadable
FilesChange ==
    /\ \E p \in DOMAIN server.files : \E k \in FileKinds :
          /\ server.files[p] # k
          /\ server' = [server EXCEPT !.files[p] = k]
    /\ lastOp' = Op("files", 0, 0, 0)
    /\ ServerOnly

NextServer ==
    \/ ServerRequest
    \/ ReadFileCallback
    \/ FilesChange

SpecServer == InitWs /\ [][NextServer]_vars

---------------------------------------------------------------------------
(***************************************************************************)
(* Dragging and panning with the right hand: a right hand that is a fist,  *)
(* pinching or open, over seeded note 1 or the empty canvas beside it.     *)
(* Notes and the view are followed while they stay within MaxDrag moves of *)
(* where they started.                                                     *)
(***************************************************************************)
FIST_HAND == Shape(RELEASE_THRESHOLD + 10, 20, 20, 20, 20)

DragShapes == {FIST_HAND, PINCH_HAND, OPEN_HAND}
DragPoints == {NOTE_1_POINT, EMPTY_CANVAS_POINT}
DragIntervals == {40}

MaxDrag == 1

\* the distance the cursor travels between the two points
DragStep == Abs(NOTE_1_POINT.x - EMPTY_CANVAS_POINT.x)

\* the notes and the view of the next state are within MaxDrag moves
WithinDrag ==
    /\ Len(notes') = Len(SeedNotes)
    /\ \A i \in 1..Len(notes') :
          /\ Abs(notes'[i].x - SeedNotes[i].x) <= MaxDrag * DragStep
          /\ notes'[i].y = SeedNotes[i].y
    /\ Abs(offsetX') <= MaxDrag * DragStep
    /\ offsetY' = 0

DragRightHandFrame ==
    \E t \in DragPoints, sh \in DragShapes, dt \in DragIntervals :
        LET raw == RawFor(rightHand.smoothCursor, t)
        IN  /\ Reaches(rightHand.smoothCursor, raw, t)
            /\ renderLoop(<<RightHandAt(sh, raw)>>, dt)
            /\ WithinDrag

NextDrag ==
    \/ DragRightHandFrame
    \/ EditorEscape

SpecDrag == InitApp /\ [][NextDrag]_vars

(***************************************************************************)
(* Two-hand zoom and pan: the right hand, alone, is a fist or open where   *)
(* it is; with an open left hand at the corner of the image it moves       *)
(* between the two points, open or pinching; with a pinching left hand it  *)
(* stays where it is, open or pinching.  The view is followed while the    *)
(* offsets stay within MaxDrag pans and single hands move no note.         *)
(***************************************************************************)
ComboIntervals == {150}

\* the distance the midpoint of the hands travels when the right hand moves
PanStep == DragStep \div 2

\* the view of the next state is within the bounds, and a frame that is
\* not a two-hand frame is followed if it moves no note
WithinCombo ==
    /\ Abs(offsetX') <= MaxDrag * PanStep
    /\ Abs(offsetY') <= MaxDrag * PanStep
    /\ interactionMode' \notin {"two_hand_zoom", "two_hand_pan"} =>
          /\ Len(notes') = Len(notes)
          /\ \A i \in 1..Len(notes) :
                notes'[i].x = notes[i].x /\ notes'[i].y = notes[i].y

ComboRightHandFrame ==
    \E t \in DragPoints, sh \in {FIST_HAND, OPEN_HAND}, dt \in ComboIntervals :
        LET raw == RawFor(rightHand.smoothCursor, t)
        IN  /\ rightHand.detected => t = rightHand.smoothCursor
            /\ Reaches(rightHand.smoothCursor, raw, t)
            /\ renderLoop(<<RightHandAt(sh, raw)>>, dt)
            /\ WithinCombo

ComboBothHandsFrame ==
    \E t \in DragPoints, sh \in {PINCH_HAND, OPEN_HAND}, dt \in ComboIntervals :
    \E left \in {LeftHandOpen, LeftHandPinch} :
        LET raw == RawFor(rightHand.smoothCursor, t)
        IN  /\ (rightHand.detected /\ left = LeftHandPinch)
                  => t = rightHand.smoothCursor
            /\ Reaches(rightHand.smoothCursor, raw, t)
            /\ renderLoop(<<RightHandAt(sh, raw), left>>, dt)
            /\ WithinCombo

NextCombo ==
    \/ ComboRightHandFrame
    \/ ComboBothHandsFrame

SpecCombo == InitApp /\ [][NextCombo]_vars

---------------------------------------------------------------------------
(***************************************************************************)
(* Panning with the left hand: a right hand that comes and goes, a fist or *)
(* open over seeded note 1, and a left hand that comes and goes, a fist    *)
(* that moves between two points.  The view is followed while it stays     *)
(* within MaxLeftPan moves of the left hand.                               *)
(***************************************************************************)
LEFT_POINT_1 == Point(200, 100)
LEFT_POINT_2 == Point(210, 100)
LeftPoints == {LEFT_POINT_1, LEFT_POINT_2}
LeftIntervals == {100}

MaxLeftPan == 1

\* the landmarks of the user's left hand in pose sh with the index finger
\* tip at canvas point raw; the tracker calls this hand "Right"
LeftHandAt(sh, raw) ==
    Hand("Right", Landmarks(sh, CANVAS_WIDTH - raw.x, raw.y))

WithinLeftPan ==
    /\ Abs(offsetX') <= MaxLeftPan * Abs(LEFT_POINT_2.x - LEFT_POINT_1.x)
    /\ offsetY' = 0

\* the results of a frame: the right hand, if any, holds its place
LeftPanResults ==
    LET rights == {<<>>} \cup
                  {<<RightHandAt(sh, RawFor(rightHand.smoothCursor, t))>> :
                      sh \in {FIST_HAND, OPEN_HAND},
                      t \in {p \in {NOTE_1_POINT} :
                               /\ rightHand.detected
                                    => p = rightHand.smoothCursor
                               /\ Reaches(rightHand.smoothCursor,
                                          RawFor(rightHand.smoothCursor, p),
                                          p)}}
        lefts == {<<>>} \cup
                 {<<LeftHandAt(FIST_HAND, RawFor(leftHand.smoothCursor, t))>> :
                     t \in {p \in LeftPoints :
                              Reaches(leftHand.smoothCursor,
                                      RawFor(leftHand.smoothCursor, p), p)}}
    IN  {r \o l : r \in rights, l \in lefts}

LeftPanFrame ==
    \E results \in LeftPanResults, dt \in LeftIntervals :
        /\ renderLoop(results, dt)
        /\ WithinLeftPan

NextLeftPan == LeftPanFrame

SpecLeftPan == InitApp /\ [][NextLeftPan]_vars

---------------------------------------------------------------------------
(***************************************************************************)
(* The tools at work: one right hand that is open or pinches on its way    *)
(* from the link button over the empty canvas to three seeded              *)
(* notes, of which notes 1 and 2 are linked and note 3 is linked to        *)
(* neither.                                                                *)
(***************************************************************************)
NOTE_3_POINT == Point(660, 400)

ToolPoints ==
    {LINK_BUTTON_POINT, EMPTY_CANVAS_POINT, NOTE_1_POINT, NOTE_2_POINT,
     NOTE_3_POINT}

ToolShapes == {OPEN_HAND, PINCH_HAND}

ToolIntervals == {100, 150}

ToolRightHandFrame ==
    \E t \in ToolPoints, sh \in ToolShapes, dt \in ToolIntervals :
        LET raw == RawFor(rightHand.smoothCursor, t)
        IN  /\ Reaches(rightHand.smoothCursor, raw, t)
            /\ renderLoop(<<RightHandAt(sh, raw)>>, dt)

NextTools ==
    \/ ToolRightHandFrame
    \/ EditorEscape

SpecTools == InitApp /\ [][NextTools]_vars

---------------------------------------------------------------------------
(***************************************************************************)
(* The right hand and the editor: one right hand that is open, pinches or  *)
(* makes a fist between the link button and seeded note 1, with the        *)
(* Escape key closing the editor.  Of the frames that find the editor      *)
(* closed, those are followed that move no note and do not pan the view.   *)
(***************************************************************************)
EditingPoints ==
    {LINK_BUTTON_POINT, Point(112, 280), EMPTY_CANVAS_POINT, NOTE_1_POINT}

EditingShapes == {OPEN_HAND, PINCH_HAND, FIST_HAND}

EditingRightHandFrame ==
    \E t \in EditingPoints, sh \in EditingShapes, dt \in AppIntervals :
        LET raw == RawFor(rightHand.smoothCursor, t)
        IN  /\ Reaches(rightHand.smoothCursor, raw, t)
            /\ renderLoop(<<RightHandAt(sh, raw)>>, dt)
            /\ ~editor.isOpen =>
                  /\ offsetX' = offsetX
                  /\ offsetY' = offsetY
                  /\ \A i \in 1..Len(notes) :
                        i <= Len(notes') /\ notes'[i].id = notes[i].id
                           => notes'[i].x = notes[i].x /\ notes'[i].y = notes[i].y

NextEditing ==
    \/ EditingRightHandFrame
    \/ EditorEscape

SpecEditing == InitApp /\ [][NextEditing]_vars

---------------------------------------------------------------------------
(***************************************************************************)
(* The toolbar with all its buttons: checkToolbarHover and                 *)
(* checkToolbarClick called frame after frame with the cursor on any of    *)
(* the seven buttons or off the toolbar.                                   *)
(***************************************************************************)
ClickIntervals == {100, 250}

\* the centre of the button of tool id
ButtonPoint(id) ==
    LET box == ButtonBox(id, CANVAS_HEIGHT)
    IN  Point(box.x + box.width \div 2, box.y + box.height \div 2)

ClickPoints == {ButtonPoint(id) : id \in Range(TOOLS)} \cup {OFF_TOOLBAR_POINT}

\* lastOp after it: the index in TOOLS of the button whose click was
\* registered (0 for none), the index in TOOLS of the action returned (0 for
\* null) and pinchJustConfirmed as 1 or 0
ToolbarClickFrame ==
    \E dt \in ClickIntervals, cursor \in ClickPoints,
       pinchJustConfirmed \in BOOLEAN :
    \E hover \in {checkToolbarHover(ButtonsLater(toolbarButtons, dt),
                                    toolbarMinimized, cursor, CANVAS_HEIGHT)} :
    \E click \in {checkToolbarClick(hover.buttons, toolbarMinimized,
                                    activeTool, pinchJustConfirmed)} :
        /\ toolbarButtons' = click.buttons
        /\ toolbarMinimized' = click.minimized
        /\ activeTool' = click.activeTool
        /\ hoverLog' = HoverLogAfter(hoverLog,
                                     [detected |-> TRUE, smoothCursor |-> cursor],
                                     dt, CANVAS_HEIGHT)
        /\ clickLog' = ClickLogAfter(clickLog, dt, click.clicked)
        /\ lastOp' = Op("toolbarClick",
                        IF click.clicked = "" THEN 0
                        ELSE ToolIndex(click.clicked),
                        IF click.action = "" THEN 0
                        ELSE ToolIndex(click.action),
                        IF pinchJustConfirmed THEN 1 ELSE 0)
        /\ UNCHANGED <<wsVars, geVars, exportMenu, editor, hoveredNoteId,
                       isDragging, isPanning, toast, latestResults, drawn,
                       downloads, project, boot, pngPending, server>>

NextClicks == ToolbarClickFrame

SpecClicks == InitApp /\ [][NextClicks]_vars

---------------------------------------------------------------------------
(***************************************************************************)
(* Panning beside the editor: a right hand that comes and goes, open or    *)
(* pinching over seeded note 1 (a pinch selects the note, a second pinch   *)
(* opens the editor on it), and a left hand that comes and goes, a fist    *)
(* that moves between two points.                                          *)
(***************************************************************************)
EditorPanShapes == {OPEN_HAND, PINCH_HAND}

\* the results of a frame: the right hand, if any, holds its place
EditorPanResults ==
    LET rights == {<<>>} \cup
                  {<<RightHandAt(sh, RawFor(rightHand.smoothCursor, t))>> :
                      sh \in EditorPanShapes,
                      t \in {p \in {NOTE_1_POINT} :
                               /\ rightHand.detected
                                    => p = rightHand.smoothCursor
                               /\ Reaches(rightHand.smoothCursor,
                                          RawFor(rightHand.smoothCursor, p),
                                          p)}}
        lefts == {<<>>} \cup
                 {<<LeftHandAt(FIST_HAND, RawFor(leftHand.smoothCursor, t))>> :
                     t \in {p \in LeftPoints :
                              Reaches(leftHand.smoothCursor,
                                      RawFor(leftHand.smoothCursor, p), p)}}
    IN  {r \o l : r \in rights, l \in lefts}

EditorPanFrame ==
    \E results \in EditorPanResults, dt \in LeftIntervals :
        /\ renderLoop(results, dt)
        /\ WithinLeftPan

NextEditorPan == EditorPanFrame

SpecEditorPan == InitApp /\ [][NextEditorPan]_vars

---------------------------------------------------------------------------
(***************************************************************************)
(* Fitting the view: createNote called with a few world points, and        *)
(* zoomToFit called with the sizes of a few canvases, in any order, from   *)
(* the empty workspace.                                                    *)
(***************************************************************************)
MaxFitNotes == 4        \* createNote is called at most MaxFitNotes times

FitCentres == {<<400, 300>>, <<750, 450>>, <<1500, 900>>}
FitCanvases == {<<1280, 720>>, <<640, 480>>, <<1920, 1080>>}

InitFit ==
    /\ notes = <<>>
    /\ links = <<>>
    /\ noteCounter = 0
    /\ linkCounter = 0
    /\ zoom = ZOOM_ONE
    /\ offsetX = 0
    /\ offsetY = 0
    /\ selectedNoteIds = <<>>
    /\ linkSourceId = NULL
    /\ lastOp = Op("init", 0, 0, 0)
    /\ InitGesture
    /\ InitUi
    /\ boot = Running

FitCreateNote ==
    /\ noteCounter < MaxFitNotes
    /\ \E p \in FitCentres :
          notes' = Append(notes, NewNote(noteCounter, p[1], p[2], "New Note"))
    /\ noteCounter' = noteCounter + 1
    /\ lastOp' = Op("createNote", 0, 0, 0)
    /\ UNCHANGED outsideWs
    /\ UNCHANGED <<links, zoom, offsetX, offsetY, selectedNoteIds,
                   linkSourceId, linkCounter>>

\* a pan, which takes the view away from where zoomToFit left it
FitApplyPan ==
    /\ lastOp.op = "zoomToFit"
    /\ \E r \in {PanResult(zoom, offsetX, offsetY, 50, 50)} :
          /\ offsetX' = r[1]
          /\ offsetY' = r[2]
    /\ lastOp' = Op("applyPan", 0, 0, 0)
    /\ UNCHANGED outsideWs
    /\ UNCHANGED <<notes, links, zoom, selectedNoteIds, linkSourceId,
                   noteCounter, linkCounter>>

\* lastOp after it: canvasWidth and canvasHeight
FitToCanvas ==
    \E cv \in FitCanvases :
        LET r == FitResult(notes, cv[1], cv[2])
        IN  /\ zoom' = r[1]
            /\ offsetX' = r[2]
            /\ offsetY' = r[3]
            /\ lastOp' = Op("zoomToFit", cv[1], cv[2], 0)
            /\ UNCHANGED outsideWs
            /\ UNCHANGED <<notes, links, selectedNoteIds, linkSourceId,
                           noteCounter, linkCounter>>

NextFit ==
    \/ FitCreateNote
    \/ FitApplyPan
    \/ FitToCanvas

SpecFit == InitFit /\ [][NextFit]_vars

---------------------------------------------------------------------------
(* Claims about the workspace data layer *)

\* C1: in every state reachable from zoom 1.0, offset (0, 0) by applyZoom,
\* applyZoomFactor, applyPan and zoomToFit calls, workspace.zoom lies in
\* [0.3, 3.0].
C1_ZoomWithinLimits == MIN_ZOOM <= zoom /\ zoom <= MAX_ZOOM

\* zooming in by steps has saturated at 3.0, away from the origin anchor
C1_Witness == lastOp.op = "applyZoom" /\ zoom = MAX_ZOOM /\ offsetX # 0

\* C2: workspace.links never holds a link from a note to itself, nor two
\* links that join the same unordered pair of note ids.
C2_NoSelfNoDuplicateLinks ==
    /\ \A i \in 1..Len(links) : links[i].from # links[i].to
    /\ \A i, j \in 1..Len(links) :
          i # j => {links[i].from, links[i].to} # {links[j].from, links[j].to}

\* createLink(b, a) has just returned null because a link a -> b exists
C2_Witness ==
    /\ lastOp.op = "createLink"
    /\ lastOp.ret = NULL
    /\ lastOp.id # lastOp.id2
    /\ LinkExistsDirected(links, lastOp.id2, lastOp.id)
    /\ ~LinkExistsDirected(links, lastOp.id, lastOp.id2)

\* C4: every note's selected flag is true exactly when its id is in
\* selection.selectedNoteIds.
C4_SelectedFlagMatchesSelection ==
    \A i \in 1..Len(notes) :
        notes[i].selected <=> Includes(selectedNoteIds, notes[i].id)

\* a note has just been deselected while another one stays selected
C4_Witness ==
    /\ lastOp.op = "deselectNote"
    /\ \E i, j \in 1..Len(notes) :
          /\ notes[i].selected
          /\ ~notes[j].selected
          /\ ~Includes(selectedNoteIds, notes[j].id)
    /\ noteCounter > Len(notes)

\* C5: deleteNote(A) removes note A, exactly the links that touch A and A's
\* entry in the selection; every other note, link and selected id, and their
\* order, stay as they were.
C5_DeleteNoteFrame ==
    [][lastOp'.op = "deleteNote" =>
        LET A == lastOp'.id
            keptNotes == {i \in 1..Len(notes) : notes[i].id # A}
            keptLinks == {i \in 1..Len(links) :
                            links[i].from # A /\ links[i].to # A}
            keptSel == {i \in 1..Len(selectedNoteIds) : selectedNoteIds[i] # A}
        IN  /\ Len(notes') = Cardinality(keptNotes)
            /\ \A i \in keptNotes :
                  notes'[Cardinality({j \in keptNotes : j <= i})] = notes[i]
            /\ Len(links') = Cardinality(keptLinks)
            /\ \A i \in keptLinks :
                  links'[Cardinality({j \in keptLinks : j <= i})] = links[i]
            /\ Len(selectedNoteIds') = Cardinality(keptSel)
            /\ \A i \in keptSel :
                  selectedNoteIds'[Cardinality({j \in keptSel : j <= i})]
                      = selectedNoteIds[i]
            /\ UNCHANGED <<zoom, offsetX, offsetY>>
    ]_vars

\* deleteNote(A) has removed a selected note A and its links; a note that
\* was linked to nothing else remains with zero links, and another note
\* stays selected
C5_Witness ==
    /\ lastOp.op = "deleteNote"
    /\ lastOp.id2 >= 1
    /\ lastOp.ret = 1
    /\ \E i \in 1..Len(notes) : getLinksForNote(links, notes[i].id) = <<>>
    /\ Len(selectedNoteIds) >= 1


\* screen points the zooms are centred at, and factors of applyZoomFactor
ZoomCentres == Anchors \cup {<<640, 360>>, <<1279, 719>>, <<70, 280>>}
ZoomRatios == Factors \cup {920, 999, 1001, 1080, 1500}

(***************************************************************************)
(* The world point under the screen point c, taken before a zoom whose     *)
(* result is r, is under c after it.  Screen and world coordinates are     *)
(* whole pixels here, so "under c" is up to the division screenToWorld     *)
(* rounds and the product worldToScreen rounds: the point lands on c or    *)
(* less than r[1] / ZOOM_ONE + 1 pixels before it.                         *)
(***************************************************************************)
StaysUnder(c, r) ==
    LET w == screenToWorld(zoom, offsetX, offsetY, c[1], c[2])
        s == worldToScreen(r[1], r[2], r[3], w.x, w.y)
    IN  /\ s.x <= c[1] /\ (c[1] - s.x) * ZOOM_ONE < r[1] + ZOOM_ONE
        /\ s.y <= c[2] /\ (c[2] - s.y) * ZOOM_ONE < r[1] + ZOOM_ONE

\* C13: for the zoom and offsets of every state, every centre (cx, cy),
\* either direction of applyZoom and every factor of applyZoomFactor, the
\* world point under (cx, cy) before the call is under (cx, cy) after it,
\* also when the call changes nothing because the zoom is clamped.
C13_ZoomKeepsAnchor ==
    \A c \in ZoomCentres :
        /\ \A delta \in {-1, 1} :
              StaysUnder(c, ZoomResult(zoom, offsetX, offsetY, delta,
                                       c[1], c[2]))
        /\ \A factor \in ZoomRatios :
              StaysUnder(c, ZoomFactorResult(zoom, offsetX, offsetY, factor,
                                             c[1], c[2]))

\* a zoom about a centre other than the origin has moved the offsets, and
\* the next applyZoomFactor about it is clamped to a no-op
C13_Witness ==
    /\ lastOp.op = "applyZoomFactor"
    /\ zoom = MAX_ZOOM
    /\ offsetX # 0
    /\ ZoomFactorResult(zoom, offsetX, offsetY, 2500, 16, 0)
          = <<zoom, offsetX, offsetY>>

\* world points on the corners and edges of the notes, inside one or
\* several of them, and outside all of them
HitPoints == {<<0, 0>>, <<200, 120>>, <<100, 60>>, <<49, 10>>, <<50, 20>>,
              <<201, 121>>, <<250, 140>>, <<251, 140>>, <<300, 300>>}

\* the bounding box of note n, edges included, holds the point p
BoxHolds(n, p) ==
    /\ n.x <= p[1] /\ p[1] <= n.x + n.width
    /\ n.y <= p[2] /\ p[2] <= n.y + n.height

\* C14: hitTestNote(x, y) returns null when no note's box holds the point,
\* and otherwise a note whose box holds it, that is after every other such
\* note in workspace.notes and was created after every other such note.
C14_HitTestTopmost ==
    \A p \in HitPoints :
        LET k == hitTestNote(notes, p[1], p[2])
            holding == {i \in 1..Len(notes) : BoxHolds(notes[i], p)}
        IN  IF holding = {} THEN k = 0
            ELSE /\ k \in holding
                 /\ \A i \in holding : i <= k /\ notes[i].id <= notes[k].id

\* after a delete and a move, two notes that overlap without coinciding:
\* the point inside both hits the later one
C14_Witness ==
    /\ lastOp.op = "moveNote"
    /\ Len(notes) = 2
    /\ noteCounter = 3
    /\ notes[1].x # notes[2].x
    /\ BoxHolds(notes[1], <<100, 60>>)
    /\ hitTestNote(notes, 100, 60) = 2

---------------------------------------------------------------------------
(* Claims about the gesture engine *)

HandNames == {"right", "left"}
HandOf(name) == IF name = "right" THEN rightHand ELSE leftHand

\* C6: a pinch whose release frame comes less than PINCH_DEBOUNCE_MS after
\* its engage frame shows neither pinchConfirmed nor pinchJustConfirmed on
\* any of its frames, the release frame included; nor does a pinch that is
\* still held and younger than PINCH_DEBOUNCE_MS.
C6_ShortPinchNeverConfirms ==
    \A name \in HandNames :
        (/\ pinchLog[name].phase \in {"held", "released"}
         /\ pinchLog[name].age < PINCH_DEBOUNCE_MS)
        => (/\ ~pinchLog[name].seen
            /\ ~HandOf(name).pinchConfirmed
            /\ ~HandOf(name).pinchJustConfirmed)

\* a pinch was engaged and released 60 ms after the engage frame
C6_Witness ==
    /\ pinchLog.right.phase = "released"
    /\ pinchLog.right.age = 60
    /\ rightHand.detected

\* C7: pinchJustConfirmed is true on exactly the first frame of a pinch at
\* which PINCH_DEBOUNCE_MS have passed since the engage frame, and
\* pinchConfirmed is true on that frame and on every later frame of the
\* pinch, and on no other frame.
C7_JustConfirmedOnce ==
    [][\A name \in HandNames :
        LET before == pinchLog[name]
            after == pinchLog'[name]
            h == IF name = "right" THEN rightHand' ELSE leftHand'
        IN  /\ h.pinchJustConfirmed
                <=> (/\ after.phase = "held"
                     /\ after.age >= PINCH_DEBOUNCE_MS
                     /\ before.age < PINCH_DEBOUNCE_MS)
            /\ h.pinchConfirmed
                <=> (/\ after.phase = "held"
                     /\ after.age >= PINCH_DEBOUNCE_MS)]_vars

\* a frame of a held pinch after the one that confirmed it
C7_Witness ==
    /\ pinchLog.left.phase = "held"
    /\ leftHand.pinchConfirmed
    /\ ~leftHand.pinchJustConfirmed

\* C8 as stated: whenever a hand's committed gestureMode changes, the new
\* mode is the raw pose of this frame and of the two frames before it.
C8_CommitOnlyOnThirdFrame ==
    [][\A name \in HandNames :
        LET old == HandOf(name)
            new == IF name = "right" THEN rightHand' ELSE leftHand'
        IN  new.gestureMode # old.gestureMode
            => (/\ rawRun'[name].pose = new.gestureMode
                /\ rawRun'[name].count >= GESTURE_CONFIRM_FRAMES)]_vars

\* C8: on a frame in which the hand is detected, the committed gestureMode
\* changes only to the raw pose of this frame and of the two frames before
\* it, and a raw pose seen on three consecutive frames is the committed
\* gestureMode; a frame without the hand resets gestureMode to 'none'.
C8_CommitOnThirdFrameWhileDetected ==
    [][\A name \in HandNames :
        LET old == HandOf(name)
            new == IF name = "right" THEN rightHand' ELSE leftHand'
        IN  IF new.detected
            THEN /\ new.gestureMode # old.gestureMode
                    => (/\ rawRun'[name].pose = new.gestureMode
                        /\ rawRun'[name].count >= GESTURE_CONFIRM_FRAMES)
                 /\ rawRun'[name].count >= GESTURE_CONFIRM_FRAMES
                    => new.gestureMode = rawRun'[name].pose
            ELSE new.gestureMode = "none"]_vars

\* a fist was committed and a different pose has been seen on two frames
\* since: the committed mode has not followed it
C8_Witness ==
    /\ rightHand.gestureMode = "fist"
    /\ rawRun.right.pose = "open"
    /\ rawRun.right.count = 2

\* C9: after a frame in which both hands have pinchConfirmed, the resolved
\* interaction mode is two_hand_zoom.
C9_BothPinchedIsZoom ==
    (rightHand.pinchConfirmed /\ leftHand.pinchConfirmed)
        => interactionMode = "two_hand_zoom"

\* both pinches are confirmed while both committed poses are still 'open'
C9_Witness ==
    /\ rightHand.pinchConfirmed
    /\ leftHand.pinchConfirmed
    /\ rightHand.gestureMode = "open"
    /\ leftHand.gestureMode = "open"
    /\ lastOp.op = "processAllHands"

\* the two-hand combo is active with mode m
ComboIs(m) == twoHand.active /\ twoHand.mode = m

\* the hand is detected with a debounced pose other than none
Posing(h) == h.detected /\ h.gestureMode # "none"

\* C24: after every processed frame the resolved interaction mode is
\* two_hand_zoom or two_hand_pan exactly when the two-hand combo is active
\* with that mode; otherwise single_right exactly when the right hand is
\* detected with a debounced pose other than none; otherwise single_left
\* exactly when the left hand is; otherwise idle.  The mode is never
\* two_hand_link, and a two-hand mode implies that both hands are detected.
C24_ModeFollowsPriority ==
    lastOp.op = "processAllHands" =>
        /\ interactionMode = "two_hand_zoom" <=> ComboIs("zoom")
        /\ interactionMode = "two_hand_pan" <=> ComboIs("pan")
        /\ ~ComboIs("zoom") /\ ~ComboIs("pan") =>
              /\ interactionMode = "single_right" <=> Posing(rightHand)
              /\ ~Posing(rightHand) =>
                    /\ interactionMode = "single_left" <=> Posing(leftHand)
                    /\ ~Posing(leftHand) => interactionMode = "idle"
        /\ interactionMode # "two_hand_link"
        /\ interactionMode \in {"two_hand_zoom", "two_hand_pan"} =>
              rightHand.detected /\ leftHand.detected

\* both hands are detected with a pose, the right one pinching and the left
\* one open: no combo, and the right hand has the frame
C24_Witness ==
    /\ lastOp.op = "processAllHands"
    /\ Posing(rightHand)
    /\ Posing(leftHand)
    /\ rightHand.pinchConfirmed
    /\ ~leftHand.pinchConfirmed
    /\ ~twoHand.active
    /\ interactionMode = "single_right"

---------------------------------------------------------------------------
(* Claims about the running application *)

\* C3: both endpoints of every link in workspace.links are ids of notes in
\* workspace.notes.
C3_NoDanglingLinks ==
    \A i \in 1..Len(links) :
        /\ \E k \in 1..Len(notes) : notes[k].id = links[i].from
        /\ \E k \in 1..Len(notes) : notes[k].id = links[i].to

\* C10: a frame registers a toolbar click on a button only if the right
\* hand's cursor has been inside that button, without a frame that saw it
\* elsewhere, for at least HOVER_DELAY_MS.
C10_ClickNeedsContinuousHover ==
    (lastOp.op = "renderLoop" /\ lastOp.id2 # 0)
        => (/\ hoverLog.btn = TOOLS[lastOp.id2]
            /\ hoverLog.age >= HOVER_DELAY_MS)

C18_MultiSelectionReached == <>(Len(selectedNoteIds) >= 2)

\* what the interaction does reach: the selection never holds two notes
SelectionAtMostOne == Len(selectedNoteIds) <= 1

\* the link is no longer in workspace.links and both its notes still are
RemovedAlone(l) ==
    /\ \A i \in 1..Len(links) : links[i].id # l.id
    /\ \E i \in 1..Len(notes) : notes[i].id = l.from
    /\ \E i \in 1..Len(notes) : notes[i].id = l.to

\* C19: gesture and toolbar interaction brings the application, from the
\* seeded workspace with its two links, to a state where one of these links
\* is gone while both of its endpoint notes still exist.
C19_LinkRemovedAlone ==
    <>(\E k \in 1..Len(SeedLinks) : RemovedAlone(SeedLinks[k]))

\* what the interaction does do: a link leaves workspace.links only in a
\* step that removes one of its endpoint notes
LinksLeaveWithNotes ==
    [][\A i \in 1..Len(links) :
          (\A j \in 1..Len(links') : links'[j].id # links[i].id)
             => \E e \in {links[i].from, links[i].to} :
                   /\ \E n \in 1..Len(notes) : notes[n].id = e
                   /\ \A n \in 1..Len(notes') : notes'[n].id # e]_vars

---------------------------------------------------------------------------
(* Claims about the toolbar *)

\* the buttons checkToolbarHover and checkToolbarClick look at
Participates(id, minimized) == minimized => id = "toggle"

\* what a registered click on button id leaves behind
ActionOf(id) ==
    /\ lastOp'.id2 = ToolIndex(id)
    /\ clickLog'[id] = 0
    /\ IF id = "toggle" THEN toolbarMinimized' = ~toolbarMinimized
       ELSE /\ toolbarMinimized' = toolbarMinimized
            /\ activeTool' = IF id \in {"fit", "delete", "download"}
                             THEN activeTool ELSE id

\* C11: a pinch-confirmed edge on a button the toolbar shows, the cursor
\* having been inside it for at least 250 ms and no click having been
\* registered on it in the last 500 ms, registers one click, on that button,
\* and performs its action; an edge on a button less than 500 ms after a
\* click was registered on it registers no click.
C11_ClickOnceThenDebounced ==
    [][(lastOp'.op = "checkToolbarClick" /\ lastOp'.ret = 1)
        => \A id \in Range(TOOLS) :
              (Participates(id, toolbarMinimized) /\ hoverLog'.btn = id)
                 => /\ (/\ hoverLog'.age >= HOVER_DELAY_MS
                        /\ clickLog[id] + lastOp'.id >= CLICK_DEBOUNCE_MS)
                       => ActionOf(id)
                    /\ clickLog[id] + lastOp'.id < CLICK_DEBOUNCE_MS
                       => /\ lastOp'.id2 = 0
                          /\ toolbarMinimized' = toolbarMinimized
                          /\ activeTool' = activeTool]_vars

\* an edge after 250 ms of hover that the debounce has suppressed
C11_Witness ==
    /\ lastOp.op = "checkToolbarClick"
    /\ lastOp.ret = 1
    /\ lastOp.id2 = 0
    /\ hoverLog.btn # ""
    /\ hoverLog.age >= HOVER_DELAY_MS
    /\ Participates(hoverLog.btn, toolbarMinimized)
    /\ clickLog[hoverLog.btn] < CLICK_DEBOUNCE_MS

---------------------------------------------------------------------------
(* Claims about the bootstrap *)

\* the three outcomes initCamera's catch block produces
ClassifiedOutcome(message) ==
    \/ message = <<"PERMISSION_DENIED">>
    \/ message = <<"NO_CAMERA">>
    \/ (Len(message) = 2 /\ message[1] = "CAMERA_ERROR: ")

\* C15: when camera acquisition has failed (getUserMedia rejected, the
\* video element reported an error, or play() rejected), the error that
\* reached the caller of initCamera is PERMISSION_DENIED, NO_CAMERA or a
\* CAMERA_ERROR with the underlying message.
C15_CameraFailureClassified ==
    (boot.step = "failed" /\ boot.cause \in {"getUserMedia", "video", "play"})
        => ClassifiedOutcome(boot.error)

\* C16: an attempt of init() in which an await has failed has not set
\* isRunning, scheduled no frame and seeded no demo data, and has hidden the
\* loading screen and shown the error screen; isRunning is set, a frame is
\* scheduled or run, and the demo data seeded, only in an attempt all of
\* whose awaits have resolved.
C16_FailedBootNeverRuns ==
    /\ boot.step = "failed"
          => /\ ~boot.isRunning /\ ~boot.scheduled /\ ~boot.seeded
             /\ notes = <<>> /\ links = <<>>
             /\ lastOp.op # "renderLoop"
             /\ ~boot.loadingScreen /\ boot.errorScreen
    /\ (boot.isRunning \/ boot.scheduled \/ boot.seeded
            \/ lastOp.op = "renderLoop" \/ notes # <<>>)
          => /\ boot.passed = BootSteps
             /\ boot.step = "running"

\* a second attempt that has failed at hand tracking after the first one
\* failed at the camera
C16_Witness ==
    /\ boot.step = "failed"
    /\ boot.cause = "tracking"
    /\ boot.attempts = 2
    /\ boot.passed = {"camera", "video"}

---------------------------------------------------------------------------
(* Claims about the export menu and the exports *)

\* C17: a frame that performs the PNG export while workspace.notes is empty
\* hands no file to the browser, leaves no toBlob callback behind that
\* could, leaves the workspace and the selection as they were, and shows
\* the failure toast.
C17_EmptyPngExportFails ==
    [][(/\ lastOp'.op = "renderLoop"
        /\ lastOp'.ret = ItemIndex("png")
        /\ Len(notes) = 0)
        => /\ downloads' = ""
           /\ pngPending' = pngPending
           /\ toast' = [message |-> "No notes to export", elapsed |-> 0]
           /\ UNCHANGED wsVars]_vars

\* the PNG item has been clicked over the empty workspace
C17_Witness ==
    /\ lastOp.op = "renderLoop"
    /\ lastOp.ret = ItemIndex("png")
    /\ notes = <<>>
    /\ toast.message = "No notes to export"
    /\ ~exportMenu.isOpen

\* the index in MENU_ITEMS of the item of the open menu under the screen
\* point p, 0 when p is on no item
ItemUnder(menu, p) ==
    LET top == menu.menuY + MENU_PADDING
        under == {i \in 1..Len(MENU_ITEMS) :
                     /\ p.x >= menu.menuX /\ p.x <= menu.menuX + MENU_WIDTH
                     /\ p.y >= top + (i - 1) * ITEM_HEIGHT
                     /\ p.y < top + i * ITEM_HEIGHT}
    IN  IF under = {} THEN 0 ELSE CHOOSE i \in under : TRUE

\* a frame that began with the export menu open and in which the right
\* hand's pinch became confirmed
PinchOnOpenMenu ==
    /\ lastOp'.op = "renderLoop"
    /\ exportMenu.isOpen
    /\ rightHand'.detected
    /\ rightHand'.pinchJustConfirmed

\* the menu is closed, the export of the item under the cursor and nothing
\* else is performed: no toolbar click, no change of tool, workspace or
\* selection, no editor
OnlyExportPerformed ==
    /\ ~exportMenu'.isOpen
    /\ lastOp'.ret = ItemUnder(exportMenu, rightHand'.smoothCursor)
    /\ lastOp'.id2 = 0
    /\ UNCHANGED <<wsVars, activeTool, toolbarMinimized, editor>>

\* C20 as stated: every frame that begins with the export menu open and in
\* which the right hand's pinch becomes confirmed leaves the menu closed and
\* performs the export of the item under the cursor, if any, and nothing
\* else.
C20_PinchAlwaysClosesMenu ==
    [][PinchOnOpenMenu => OnlyExportPerformed]_vars

\* C20: the same, for the frames whose interaction mode is not a two-hand
\* combo, which are the frames that process the right hand.
C20_PinchClosesMenuUnlessTwoHand ==
    [][(PinchOnOpenMenu
          /\ interactionMode' \notin {"two_hand_zoom", "two_hand_pan"})
        => OnlyExportPerformed]_vars

\* a confirmed pinch on the download button, hovered for 250 ms and not
\* clicked for 500 ms, that clicked nothing: the menu was open and is closed
C20_Witness ==
    /\ lastOp.op = "renderLoop"
    /\ lastOp.id2 = 0
    /\ lastOp.ret = 0
    /\ rightHand.pinchJustConfirmed
    /\ interactionMode = "single_right"
    /\ hoverLog.btn = "download"
    /\ hoverLog.age >= HOVER_DELAY_MS
    /\ clickLog["download"] >= CLICK_DEBOUNCE_MS
    /\ toolbarButtons["download"].isHovered
    /\ ~exportMenu.isOpen

---------------------------------------------------------------------------
(* Claims about the note editor *)

\* a step that takes one of the editor's close paths: Escape, Ctrl+Enter or
\* Cmd+Enter in the textarea, a mouse button pressed outside the editor, or
\* a frame of the render loop whose mode is neither idle nor single_right
ClosePath ==
    \/ /\ lastOp'.op = "keydown"
       /\ EditorKeys[lastOp'.id] \in {"Escape", "Ctrl+Enter", "Meta+Enter"}
    \/ /\ lastOp'.op = "mousedown"
       /\ lastOp'.id = 0
    \/ /\ lastOp'.op = "renderLoop"
       /\ interactionMode' \notin {"idle", "single_right"}

\* C21: on every close path of the editor (Escape, Ctrl/Cmd+Enter, mouse
\* button outside, gesture force-close) the edited note, if it still exists,
\* gets the trimmed input as its text when the trimmed input is not empty
\* and keeps its text when the input is empty or all whitespace; no other
\* note changes, the editor ends closed with no editing note id, and a close
\* of the closed editor changes neither the workspace nor the editor.
C21_CloseSavesTrimmedText ==
    [][ClosePath =>
        /\ ~editor'.isOpen
        /\ editor'.editingNoteId = NULL
        /\ Len(notes') = Len(notes)
        /\ \A i \in 1..Len(notes) :
              notes'[i] =
                 IF /\ editor.isOpen
                    /\ notes[i].id = editor.editingNoteId
                    /\ Trim(editor.value) # ""
                 THEN [notes[i] EXCEPT !.text = Trim(editor.value)]
                 ELSE notes[i]
        /\ ~editor.isOpen => UNCHANGED <<wsVars, editor>>]_vars

\* Escape has closed the editor in which " idea " was typed over the first
\* note, which now reads "idea"
C21_Witness ==
    /\ lastOp.op = "keydown"
    /\ EditorKeys[lastOp.id] = "Escape"
    /\ ~editor.isOpen
    /\ editor.value = " idea "
    /\ Len(notes) > 0
    /\ notes[1].id = 1
    /\ notes[1].text = "idea"

---------------------------------------------------------------------------
(* Claims about the project document *)

NOTE_FIELDS == {"id", "x", "y", "width", "height", "text", "color"}
LINK_FIELDS == {"id", "from", "to"}

\* C22: the document exportProjectJSON builds has version "1.0", one record
\* per workspace note, in order, with exactly the fields id, x, y, width,
\* height, text and color of the note (no selected field), one record per
\* workspace link with exactly its id, from and to, and the current zoom,
\* offsetX and offsetY; the export returns true and leaves the workspace and
\* the selection as they were.
C22_JsonDocumentShape ==
    [][lastOp'.op = "exportProjectJSON" =>
        /\ project'.version = "1.0"
        /\ Len(project'.notes) = Len(notes)
        /\ \A i \in 1..Len(notes) :
              /\ DOMAIN project'.notes[i] = NOTE_FIELDS
              /\ \A f \in NOTE_FIELDS : project'.notes[i][f] = notes[i][f]
        /\ Len(project'.links) = Len(links)
        /\ \A i \in 1..Len(links) :
              /\ DOMAIN project'.links[i] = LINK_FIELDS
              /\ \A f \in LINK_FIELDS : project'.links[i][f] = links[i][f]
        /\ project'.workspace =
              [zoom |-> zoom, offsetX |-> offsetX, offsetY |-> offsetY]
        /\ lastOp'.ret = 1
        /\ UNCHANGED wsVars]_vars

\* a panned workspace of 2 notes, one of them selected, and 1 link has been
\* exported
C22_Witness ==
    /\ lastOp.op = "exportProjectJSON"
    /\ Len(notes) = 2
    /\ Len(links) = 1
    /\ selectedNoteIds # <<>>
    /\ offsetX # 0
    /\ Len(project.notes) = 2
    /\ Len(project.links) = 1

---------------------------------------------------------------------------
(* Claims about the development server *)

\* C23: every request whose URL path, with the query string stripped, is
\* '/' is served /index.html (so '/?v=1' is answered like '/'); a missing
\* file is answered 404 and any other read failure 500.
C23_RootServesIndex ==
    LET r == server.response
    IN  r.status # 0 =>
          /\ BeforeQuery(r.url) = ROOT_URL => r.fullPath = INDEX_HTML
          /\ r.error = "ENOENT" => r.status = 404
          /\ r.error \notin {"", "ENOENT"} => r.status = 500

---------------------------------------------------------------------------
(* Claims about dragging and panning *)

\* a frame on which the right hand's debounced pose becomes fist
FistBegins ==
    /\ lastOp'.op = "renderLoop"
    /\ rightHand'.detected
    /\ rightHand'.gestureMode = "fist"
    /\ rightHand.gestureMode # "fist"

\* a frame on which the right hand's debounced pose stays fist
FistGoesOn ==
    /\ lastOp'.op = "renderLoop"
    /\ rightHand'.detected
    /\ rightHand'.gestureMode = "fist"
    /\ rightHand.gestureMode = "fist"

\* the index in workspace.notes of the note under the right hand's cursor
\* of the frame, 0 when it is over no note
NoteUnderCursor ==
    LET w == screenToWorld(zoom, offsetX, offsetY,
                           rightHand'.smoothCursor.x, rightHand'.smoothCursor.y)
    IN  hitTestNote(notes, w.x, w.y)

\* no note is created, deleted or moved by the step
NotesStay ==
    /\ Len(notes') = Len(notes)
    /\ \A i \in 1..Len(notes) :
          /\ notes'[i].id = notes[i].id
          /\ notes'[i].x = notes[i].x
          /\ notes'[i].y = notes[i].y

\* C27: the drag-versus-pan decision is latched once per right-hand fist
\* gesture: the frame on which the debounced pose becomes fist starts a drag
\* if a note is under the cursor, selecting it exclusively if it was not
\* selected, and a pan if none is; the choice is kept while the pose stays
\* fist; and a fist gesture that began on empty space moves no note.
C27_FistLatchedPerGesture ==
    [][/\ FistBegins =>
            IF NoteUnderCursor # 0
            THEN /\ isDragging'
                 /\ ~isPanning'
                 /\ selectedNoteIds' =
                       IF notes[NoteUnderCursor].selected THEN selectedNoteIds
                       ELSE <<notes[NoteUnderCursor].id>>
            ELSE /\ isPanning'
                 /\ ~isDragging'
                 /\ NotesStay
       /\ FistGoesOn =>
            /\ isDragging' = isDragging
            /\ isPanning' = isPanning
            /\ isPanning => NotesStay]_vars


\* a frame whose resolved mode is two_hand_zoom or two_hand_pan
TwoHandFrame ==
    /\ lastOp'.op = "renderLoop"
    /\ interactionMode' \in {"two_hand_zoom", "two_hand_pan"}

\* the editor is as it was, or was open and is closed
EditorKeptOrClosed ==
    \/ editor' = editor
    \/ editor.isOpen /\ ~editor'.isOpen

\* C25: a frame whose resolved mode is two_hand_zoom or two_hand_pan changes
\* at most the workspace's zoom and offsets, and may close the editor: no
\* note is created, moved, deleted, selected or deselected, no link is
\* created, no toolbar or export menu action fires, and isDragging and
\* isPanning are both false after the frame.
C25_TwoHandFrameOnlyMovesView ==
    [][TwoHandFrame =>
        /\ NotesStay
        /\ \A i \in 1..Len(notes) : notes'[i].selected = notes[i].selected
        /\ UNCHANGED <<selectedNoteIds, linkSourceId, links, noteCounter,
                       linkCounter>>
        /\ lastOp'.id2 = 0
        /\ lastOp'.ret = 0
        /\ UNCHANGED <<activeTool, toolbarMinimized, exportMenu, downloads,
                       pngPending>>
        /\ EditorKeptOrClosed
        /\ ~isDragging'
        /\ ~isPanning']_vars

\* a two-hand pan has moved the view while note 1, picked up by the right
\* fist before, is still selected
C25_Witness ==
    /\ lastOp.op = "renderLoop"
    /\ interactionMode = "two_hand_pan"
    /\ offsetX # 0
    /\ selectedNoteIds = <<1>>
    /\ ~isDragging


\* the movement of hand h's smoothed cursor on the frame just processed
DeltaOf(h) ==
    Point(h.smoothCursor.x - h.prevSmoothCursor.x,
          h.smoothCursor.y - h.prevSmoothCursor.y)

\* a frame without a two-hand combo on which the left hand is detected as a
\* fist whose cursor moved more than 0.5 px on some axis
LeftFistMoves ==
    /\ lastOp'.op = "renderLoop"
    /\ interactionMode' \notin {"two_hand_zoom", "two_hand_pan"}
    /\ leftHand'.detected
    /\ leftHand'.gestureMode = "fist"
    /\ MovedEnough(DeltaOf(leftHand'))

\* the right hand is dragging a note on the frame just processed: it is seen,
\* its debounced pose is fist, and the fist was begun on a note
RightDragsNote ==
    /\ rightHand'.detected
    /\ rightHand'.gestureMode = "fist"
    /\ isDragging'

\* what the right hand's own fist pans the view by on the frame just processed
RightPanDelta ==
    IF /\ rightHand'.detected
       /\ rightHand'.gestureMode = "fist"
       /\ isPanning'
       /\ ~editor'.isOpen
    THEN DeltaOf(rightHand')
    ELSE Point(0, 0)

\* C26: in a frame without a two-hand combo, a detected left fist whose
\* cursor moved more than 0.5 px on some axis pans the view by that movement
\* unless the right hand is dragging a note in that frame, in which case the
\* left hand pans nothing.
C26_LeftFistPansUnlessDrag ==
    [][LeftFistMoves =>
         IF RightDragsNote
         THEN /\ offsetX' = offsetX
              /\ offsetY' = offsetY
         ELSE /\ offsetX' = offsetX + DeltaOf(leftHand').x + RightPanDelta.x
              /\ offsetY' = offsetY + DeltaOf(leftHand').y + RightPanDelta.y]_vars

---------------------------------------------------------------------------
(* Claims about the tools *)

\* a frame on which the right hand's pinch becomes confirmed
ConfirmedPinch ==
    /\ lastOp'.op = "renderLoop"
    /\ rightHand'.detected
    /\ rightHand'.pinchJustConfirmed

\* the frame takes the right hand to the workspace step of processRightHand:
\* no two-hand combo, the editor and the export menu closed, the cursor on
\* no toolbar button
WorkspaceStep ==
    /\ interactionMode' \notin {"two_hand_zoom", "two_hand_pan"}
    /\ ~editor.isOpen
    /\ ~exportMenu.isOpen
    /\ checkToolbarHover(toolbarButtons, toolbarMinimized,
                         rightHand'.smoothCursor, CANVAS_HEIGHT).hovered = ""

\* the pair of note ids is linked, in either direction
Linked(n, m) ==
    \E i \in 1..Len(links) :
        \/ links[i].from = n /\ links[i].to = m
        \/ links[i].from = m /\ links[i].to = n

\* the step appends one link, from note n to note m
LinkAdded(n, m) ==
    /\ Len(links') = Len(links) + 1
    /\ \A i \in 1..Len(links) : links'[i] = links[i]
    /\ links'[Len(links')].from = n
    /\ links'[Len(links')].to = m

\* what a pinch with the link tool leaves, k being the index of the note
\* under the cursor, 0 over empty space
LinkToolOutcome(k) ==
    IF k = 0
    THEN /\ linkSourceId' = NULL
         /\ selectedNoteIds' = <<>>
         /\ links' = links
    ELSE IF linkSourceId = NULL
    THEN /\ linkSourceId' = notes[k].id
         /\ selectedNoteIds' = <<notes[k].id>>
         /\ links' = links
    ELSE /\ linkSourceId' = NULL
         /\ selectedNoteIds' = <<>>
         /\ IF notes[k].id = linkSourceId \/ Linked(linkSourceId, notes[k].id)
            THEN links' = links
            ELSE LinkAdded(linkSourceId, notes[k].id)

\* C28 as stated: with the link tool active, every frame on which the right
\* hand's pinch becomes confirmed pins the note under the cursor as the
\* source and selects it alone when no source is pinned; with a source pinned
\* it links the source to the note under the cursor unless that is the source
\* or the pair is linked, and leaves no source and no selection; over empty
\* space it leaves no source, no selection and the links as they are.
C28_ConfirmedPinchLinks ==
    [][(ConfirmedPinch /\ activeTool = "link")
         => LinkToolOutcome(NoteUnderCursor)]_vars

\* C28: the same, for the frames that take the right hand to the workspace
\* step with the debounced pose pinch.
C28_PosedPinchLinks ==
    [][(/\ ConfirmedPinch
        /\ activeTool = "link"
        /\ WorkspaceStep
        /\ rightHand'.gestureMode = "pinch")
         => LinkToolOutcome(NoteUnderCursor)]_vars

\* with the link tool, a pinch confirmed in the pose pinch over note 3 has
\* linked note 2 to it and left no source and no selection
C28_Witness ==
    /\ lastOp.op = "renderLoop"
    /\ rightHand.pinchJustConfirmed
    /\ rightHand.gestureMode = "pinch"
    /\ activeTool = "link"
    /\ hoveredNoteId = SeedNotes[3].id
    /\ Len(links) = Len(SeedLinks) + 1
    /\ links[Len(links)].from = SeedNotes[2].id
    /\ links[Len(links)].to = SeedNotes[3].id
    /\ linkSourceId = NULL
    /\ selectedNoteIds = <<>>

\* what a pinch with the select tool leaves, k being the index of the note
\* under the cursor, 0 over empty space
SelectToolOutcome(k) ==
    /\ NotesStay
    /\ links' = links
    /\ IF k = 0
       THEN /\ selectedNoteIds' = <<>>
            /\ editor' = editor
       ELSE IF Includes(selectedNoteIds, notes[k].id)
       THEN /\ selectedNoteIds' = selectedNoteIds
            /\ editor'.isOpen
            /\ editor'.editingNoteId = notes[k].id
       ELSE /\ selectedNoteIds' = <<notes[k].id>>
            /\ editor' = editor

\* the right hand's cursor of the frame is on no toolbar button, and the
\* export menu is not open
OutsideToolbarAndMenu ==
    /\ ~exportMenu.isOpen
    /\ checkToolbarHover(toolbarButtons, toolbarMinimized,
                         rightHand'.smoothCursor, CANVAS_HEIGHT).hovered = ""

\* C29 as stated: with the select tool active, every frame on which the right
\* hand's pinch becomes confirmed outside the toolbar and the export menu
\* selects the note under the cursor alone if it is not selected, opens the
\* editor for it and keeps the selection if it is selected, and empties the
\* selection over empty space; it creates, moves and deletes no note and no
\* link.
C29_ConfirmedPinchSelects ==
    [][(ConfirmedPinch /\ activeTool = "select" /\ OutsideToolbarAndMenu)
         => SelectToolOutcome(NoteUnderCursor)]_vars

\* C29: the same, for the frames that take the right hand to the workspace
\* step with the debounced pose pinch.
C29_PosedPinchSelects ==
    [][(/\ ConfirmedPinch
        /\ activeTool = "select"
        /\ WorkspaceStep
        /\ rightHand'.gestureMode = "pinch")
         => SelectToolOutcome(NoteUnderCursor)]_vars

\* with the select tool, a pinch confirmed in the pose pinch over note 1,
\* which was selected, has opened the editor for it
C29_Witness ==
    /\ lastOp.op = "renderLoop"
    /\ rightHand.pinchJustConfirmed
    /\ rightHand.gestureMode = "pinch"
    /\ activeTool = "select"
    /\ hoveredNoteId = SeedNotes[1].id
    /\ selectedNoteIds = <<SeedNotes[1].id>>
    /\ editor.isOpen
    /\ editor.editingNoteId = SeedNotes[1].id

\* a frame that finds the editor open and the right hand in the image, and
\* does not close the editor
RightHandUnderEditor ==
    /\ lastOp'.op = "renderLoop"
    /\ editor.isOpen
    /\ editor'.isOpen
    /\ rightHand'.detected

\* the frame registered no toolbar click and performed no export, and left
\* the tool, the toolbar, the export menu, the workspace, the selection and
\* the drag and pan flags as they were
RightHandSkipped ==
    /\ lastOp'.id2 = 0
    /\ lastOp'.ret = 0
    /\ UNCHANGED <<activeTool, toolbarMinimized, exportMenu, pngPending>>
    /\ UNCHANGED wsVars
    /\ UNCHANGED <<hoveredNoteId, isDragging, isPanning>>

\* C30: a frame that finds the editor open and leaves it open skips the
\* right hand: whatever the hand does, the frame registers no toolbar click,
\* performs no export-menu action, and changes neither the selection, nor
\* the notes, nor the links, nor the drag and pan flags.
C30_EditorOpenSkipsRightHand ==
    [][RightHandUnderEditor => RightHandSkipped]_vars

\* a pinch confirmed in the pose pinch on the link button, hovered long
\* enough, under the open editor and with a drag flag left from before
C30_Witness ==
    /\ lastOp.op = "renderLoop"
    /\ editor.isOpen
    /\ rightHand.detected
    /\ rightHand.pinchJustConfirmed
    /\ rightHand.smoothCursor = LINK_BUTTON_POINT
    /\ hoverLog.btn = "link"
    /\ hoverLog.age >= HOVER_DELAY_MS
    /\ activeTool = "select"
    /\ isDragging

---------------------------------------------------------------------------
(* Claims about the toolbar's buttons *)

\* the step is a frame of the toolbar that registered a click on button id:
\* its lastClickTime is the time of the frame
ClickRegistered(id) ==
    /\ lastOp'.op = "toolbarClick"
    /\ toolbarButtons'[id].clickElapsed = 0

\* the action the frame's checkToolbarClick returned, "" for null
ActionReturned ==
    IF lastOp'.id2 = 0 THEN "" ELSE TOOLS[lastOp'.id2]

\* C31: a registered click on select, note or link makes it the active tool
\* and returns it; one on fit, delete or download returns it and keeps the
\* active tool; one on toggle flips the minimized state and returns nothing;
\* and a frame that finds the toolbar minimized leaves no button other than
\* toggle hovered or clicked.
C31_ClickEffectsByButton ==
    [][/\ \A id \in {"select", "note", "link"} :
             ClickRegistered(id) =>
                 /\ activeTool' = id
                 /\ ActionReturned = id
                 /\ toolbarMinimized' = toolbarMinimized
       /\ \A id \in {"fit", "delete", "download"} :
             ClickRegistered(id) =>
                 /\ activeTool' = activeTool
                 /\ ActionReturned = id
                 /\ toolbarMinimized' = toolbarMinimized
       /\ ClickRegistered("toggle") =>
             /\ toolbarMinimized' = ~toolbarMinimized
             /\ ActionReturned = ""
             /\ activeTool' = activeTool
       /\ (lastOp'.op = "toolbarClick" /\ toolbarMinimized) =>
             \A id \in Range(TOOLS) \ {"toggle"} :
                 /\ ~toolbarButtons'[id].isHovered
                 /\ ~ClickRegistered(id)]_vars

\* a click on fit has been registered and returned while the link tool,
\* chosen before, is still the active tool
C31_Witness ==
    /\ lastOp.op = "toolbarClick"
    /\ lastOp.id = ToolIndex("fit")
    /\ lastOp.id2 = ToolIndex("fit")
    /\ toolbarButtons["fit"].clickElapsed = 0
    /\ activeTool = "link"
    /\ ~toolbarMinimized

---------------------------------------------------------------------------
(* Claims about the gesture engine's invariants *)

\* the state of a hand role is neutral
HandNeutral(h) ==
    /\ ~h.detected
    /\ ~h.isPinching
    /\ ~h.pinchConfirmed
    /\ ~h.pinchJustConfirmed
    /\ ~h.pinchJustReleased
    /\ h.gestureMode = "none"
    /\ h.gestureCandidateFrames = 0

\* C32: after a processed frame, a hand role that received no hand or fewer
\* than 21 landmarks is not detected, has all pinch flags false, gestureMode
\* none and candidate frame count 0; and in every state pinchJustConfirmed
\* implies pinchConfirmed, pinchConfirmed implies isPinching and isPinching
\* implies detected.
C32_UnseenHandNeutral ==
    \A name \in HandNames :
        /\ (lastOp.op = "processAllHands" /\ rawRun[name].pose = "")
              => HandNeutral(HandOf(name))
        /\ HandOf(name).pinchJustConfirmed => HandOf(name).pinchConfirmed
        /\ HandOf(name).pinchConfirmed => HandOf(name).isPinching
        /\ HandOf(name).isPinching => HandOf(name).detected

\* a frame has given the right role nothing usable after frames in which it
\* was seen, while the left role holds a confirmed pinch
C32_Witness ==
    /\ lastOp.op = "processAllHands"
    /\ rawRun.right.pose = ""
    /\ rightHand.smoothCursor # Point(0, 0)
    /\ ~rightHand.detected
    /\ leftHand.pinchConfirmed
    /\ leftHand.isPinching

\* C33: after every processed frame, unless both hands are detected the
\* two-hand combo state is neutral (not active, mode none, both distances 0,
\* zoomFactor 1, both midpoints and panDelta (0, 0)); the combo is active
\* exactly when its mode is zoom or pan; and when no combo is active,
\* zoomFactor is 1 and panDelta is (0, 0).
C33_ComboNeutralUnlessBoth ==
    /\ ~(rightHand.detected /\ leftHand.detected) =>
          /\ ~twoHand.active
          /\ twoHand.mode = "none"
          /\ twoHand.interHandDist = 0
          /\ twoHand.prevInterHandDist = 0
          /\ twoHand.zoomFactor = FACTOR_ONE
          /\ twoHand.midpoint = Point(0, 0)
          /\ twoHand.prevMidpoint = Point(0, 0)
          /\ twoHand.panDelta = Point(0, 0)
    /\ twoHand.active <=> twoHand.mode \in {"zoom", "pan"}
    /\ ~twoHand.active =>
          /\ twoHand.zoomFactor = FACTOR_ONE
          /\ twoHand.panDelta = Point(0, 0)

\* the left hand has left the image, in which it had been seen, while the
\* right hand holds a confirmed pinch
C33_Witness ==
    /\ lastOp.op = "processAllHands"
    /\ rightHand.detected
    /\ rightHand.pinchConfirmed
    /\ ~leftHand.detected
    /\ leftHand.smoothCursor # Point(0, 0)
    /\ twoHand.midpoint = Point(0, 0)
    /\ twoHand.interHandDist = 0

\* the ids of the notes in ns
NoteIds(ns) == {ns[i].id : i \in 1..Len(ns)}

\* C34: the active tool is always select, note or link, and a step that
\* deletes notes is a frame that registered a click on the toolbar's delete
\* button and deletes the notes that were selected.
C34_ToolNeverDelete ==
    [][/\ activeTool' \in {"select", "note", "link"}
       /\ NoteIds(notes) \ NoteIds(notes') # {} =>
             /\ lastOp'.op = "renderLoop"
             /\ lastOp'.id2 = ToolIndex("delete")
             /\ NoteIds(notes) \ NoteIds(notes') = Range(selectedNoteIds)]_vars

\* a click on the delete button has deleted the selected note 1, and the
\* active tool is the link tool chosen before
C34_Witness ==
    /\ lastOp.op = "renderLoop"
    /\ lastOp.id2 = ToolIndex("delete")
    /\ SeedNotes[1].id \notin NoteIds(notes)
    /\ activeTool = "link"

---------------------------------------------------------------------------
(* Claims about the click edge *)

\* C35: on every frame on which the right hand's pinchJustConfirmed is true,
\* its debounced gestureMode is pinch.
C35_ConfirmedEdgeInPinchPose ==
    rightHand.pinchJustConfirmed => rightHand.gestureMode = "pinch"

---------------------------------------------------------------------------
(* Claims about the drag and pan flags *)

\* C36: at the end of every frame, isDragging or isPanning is true only if
\* the right hand is detected with the debounced pose fist, and the two flags
\* are never both true.
C36_FlagsOnlyUnderFist ==
    lastOp.op = "renderLoop" =>
        /\ (isDragging \/ isPanning) =>
              (rightHand.detected /\ rightHand.gestureMode = "fist")
        /\ ~(isDragging /\ isPanning)

---------------------------------------------------------------------------
(* Claims about the link source *)

\* C37: in every state, selection.linkSourceId is null or the id of a note
\* in workspace.notes.
C37_LinkSourceIsANote ==
    linkSourceId = NULL \/ linkSourceId \in NoteIds(notes)

---------------------------------------------------------------------------
(* Claims about gestures beside the editor *)

\* a frame whose gesture processing panned or zoomed the workspace
GestureMovedView ==
    /\ lastOp'.op = "renderLoop"
    /\ <<zoom', offsetX', offsetY'>> # <<zoom, offsetX, offsetY>>

\* C38: whenever the gesture processing of a frame pans or zooms the
\* workspace, the note editor is closed at the end of that frame.
C38_GestureViewChangeClosesEditor ==
    [][GestureMovedView => ~editor'.isOpen]_vars

---------------------------------------------------------------------------
(* Claims about retried bootstraps *)

\* a step that calls init() again
InitCalledAgain == boot'.attempts # boot.attempts

\* a step in which init() runs the rest of its try block: it seeds the demo
\* data, sets isRunning and requests the first frame
InitCompletes == boot.step = "tracking" /\ boot'.step = "running"

\* C39: init() is called again only after the attempt before it has ended
\* in the catch block, so that at most one attempt is in flight; the first
\* frame is requested at most once and the demo data is seeded at most
\* once, into an empty workspace, and no attempt follows the one that did.
C39_OneBootstrapAtATime ==
    [][/\ InitCalledAgain
            => /\ boot.step = "failed"
               /\ ~boot.isRunning /\ ~boot.scheduled /\ ~boot.seeded
       /\ InitCompletes
            => /\ ~boot.isRunning /\ ~boot.scheduled /\ ~boot.seeded
               /\ notes = <<>> /\ links = <<>>
               /\ notes' = SeedNotes /\ links' = SeedLinks
       /\ (boot'.seeded /\ boot'.scheduled /\ ~InitCompletes)
            => (boot.seeded /\ boot.scheduled /\ ~InitCalledAgain
                /\ Len(notes') = Len(SeedNotes))]_vars

\* a retried bootstrap that has completed and drawn a frame
C39_Witness ==
    /\ boot.attempts = MaxAttempts
    /\ boot.step = "running"
    /\ lastOp.op = "renderLoop"
    /\ Len(notes) = Len(SeedNotes)

---------------------------------------------------------------------------
(* Claims about zoomToFit *)

\* Math.min(zoomX, zoomY) of zoomToFit(canvasWidth, canvasHeight) over the
\* notes ns, before the clamp
FitZoomUnclamped(ns, canvasWidth, canvasHeight) ==
    LET minX == SetMin({ns[i].x : i \in 1..Len(ns)})
        minY == SetMin({ns[i].y : i \in 1..Len(ns)})
        maxX == SetMax({ns[i].x + ns[i].width : i \in 1..Len(ns)})
        maxY == SetMax({ns[i].y + ns[i].height : i \in 1..Len(ns)})
    IN  Min((canvasWidth * ZOOM_ONE) \div (maxX - minX + FIT_PADDING),
            (canvasHeight * ZOOM_ONE) \div (maxY - minY + FIT_PADDING))

\* the box of note n lies in the canvas, in screen space
NoteOnCanvas(n, canvasWidth, canvasHeight) ==
    LET topLeft == worldToScreen(zoom, offsetX, offsetY, n.x, n.y)
        bottomRight == worldToScreen(zoom, offsetX, offsetY,
                                     n.x + n.width, n.y + n.height)
    IN  /\ 0 <= topLeft.x /\ bottomRight.x <= canvasWidth
        /\ 0 <= topLeft.y /\ bottomRight.y <= canvasHeight

\* C40: after zoomToFit(canvasWidth, canvasHeight) over at least one note,
\* when the fit zoom is within [MIN_ZOOM, MAX_ZOOM] before the clamp, the
\* box of every note lies inside the canvas in screen space; over no note
\* the view is reset to zoom 1 and offset (0, 0).
C40_FitContainsNotes ==
    lastOp.op = "zoomToFit" =>
        IF notes = <<>>
        THEN zoom = ZOOM_ONE /\ offsetX = 0 /\ offsetY = 0
        ELSE FitZoomUnclamped(notes, lastOp.id, lastOp.id2)
                 \in MIN_ZOOM..MAX_ZOOM
             => \A i \in 1..Len(notes) :
                    NoteOnCanvas(notes[i], lastOp.id, lastOp.id2)
=============================================================================
